---------------------------- MODULE Spec2Model ----------------------------
(***************************************************************************)
(* A model of the shade simulator (aclements/shade): the geometry kernel   *)
(* (ray.go), the sun position and the occlusion aggregation (sun.go), the  *)
(* shade model and its layers (model.go), the STL reader and the           *)
(* content-addressed cache.                                                *)
(*                                                                         *)
(* Numbers.  The program computes in float64.  The model computes in exact *)
(* integers and rationals: coordinates are small integers, the sun stands  *)
(* at multiples of a quarter turn (so that sin and cos are exactly -1, 0   *)
(* or 1), and a light multiplier is a reduced fraction [n, d].  The meshes *)
(* are placed so that every ray hits a triangle well inside it or misses   *)
(* it by a wide margin, where float64 and exact arithmetic agree.          *)
(*                                                                         *)
(* Time.  An instant is a tick count.  A year holds TicksPerYear ticks;    *)
(* the code's one-minute increment is the model's one tick.  The ticks of  *)
(* a year fall, in order, on days taken from SampleDays, which holds the   *)
(* season boundaries of the foliage model and days inside every season.    *)
(***************************************************************************)
EXTENDS Integers, Sequences, FiniteSets, TLC

(***************************************************************************)
(* Bounds of the model.                                                    *)
(***************************************************************************)
TicksPerYear == 3
MaxLayers == 2
MaxTimes == 2
\* The files the cache directory holds at most.
MaxEntries == 1

(***************************************************************************)
(* Program constants.                                                      *)
(***************************************************************************)
BaseYear == 2022
EpsilonInv == 10000000
\* time.Minute, the increment of IntensityOverYear, is one tick.
Minute == 1
Feb28 == 59
May31 == 151
Aug31 == 243
Nov30 == 334

(***************************************************************************)
(* Exact arithmetic.                                                       *)
(***************************************************************************)
Abs(x) == IF x < 0 THEN -x ELSE x

Sgn(x) == IF x < 0 THEN -1 ELSE IF x > 0 THEN 1 ELSE 0

RECURSIVE GCD(_, _)
GCD(a, b) == IF b = 0 THEN a ELSE GCD(b, a % b)

\* The fraction n/d (d # 0) in lowest terms with a positive denominator.
Rat(n, d) ==
    LET g == GCD(Abs(n), Abs(d))
    IN  [n |-> (Sgn(d) * n) \div g, d |-> Abs(d) \div g]

RAdd(a, b) == Rat(a.n * b.d + b.n * a.d, a.d * b.d)

RSub(a, b) == Rat(a.n * b.d - b.n * a.d, a.d * b.d)

RMul(a, b) == Rat(a.n * b.n, a.d * b.d)

RLess(a, b) == a.n * b.d < b.n * a.d

ROne == Rat(1, 1)

RZero == Rat(0, 1)

(***************************************************************************)
(* r3 vectors (gonum), on integer coordinates.                             *)
(***************************************************************************)
Vec(x, y, z) == <<x, y, z>>

Sub(p, q) == <<p[1] - q[1], p[2] - q[2], p[3] - q[3]>>

Dot(p, q) == p[1] * q[1] + p[2] * q[2] + p[3] * q[3]

Cross(p, q) ==
    <<p[2] * q[3] - p[3] * q[2],
      p[3] * q[1] - p[1] * q[3],
      p[1] * q[2] - p[2] * q[1]>>

\* The integer square root of n.
ISqrt(n) == CHOOSE r \in 0..n : r * r <= n /\ (r + 1) * (r + 1) > n

\* r3.Unit: v scaled to length 1.  Every direction of the model has an
\* integer length.
Unit(v) ==
    LET len == ISqrt(Dot(v, v))
    IN  <<v[1] \div len, v[2] \div len, v[3] \div len>>

(***************************************************************************)
(* ray.go: Moller-Trumbore.  The result's distance t is a fraction [n, d]  *)
(* with d > 0 (not reduced).  epsilon is 1/EpsilonInv.  The points of a    *)
(* triangle and the origin of a ray are given in steps, grid steps to the  *)
(* unit of length; the direction of a ray is a unit vector along an axis.  *)
(* The meshes of the model are in whole units: their grid is 1.            *)
(***************************************************************************)
\* n/d < epsilon, for d > 0: n * EpsilonInv < d, computed without the
\* product.
BelowEpsilon(n, d) == n < (d + EpsilonInv - 1) \div EpsilonInv

NoHit == [t |-> [n |-> 0, d |-> 1], ok |-> FALSE]

\* A faulty variant that leaves out the test of t against epsilon.
IntersectTriangleOnNoForwardTest(r, tri, grid) ==
    LET edge1 == Sub(tri[2], tri[1])
        edge2 == Sub(tri[3], tri[1])
        h     == Cross(r.Dir, edge2)
        det   == Dot(edge1, h)
        s     == Sub(r.Origin, tri[1])
        un    == Sgn(det) * Dot(s, h)
        q     == Cross(s, edge1)
        vn    == Sgn(det) * Dot(r.Dir, q)
        tn    == Sgn(det) * Dot(edge2, q)
    IN  IF BelowEpsilon(det, grid * grid) /\ BelowEpsilon(-det, grid * grid) THEN NoHit
        ELSE IF un < 0 \/ un > Abs(det) THEN NoHit
        ELSE IF vn < 0 \/ un + vn > Abs(det) THEN NoHit
        ELSE [t |-> [n |-> tn, d |-> Abs(det) * grid], ok |-> TRUE]

\* r.IntersectTriangle(tri) on coordinates in steps.  With det, un, vn and
\* tn computed in steps, the code's det is det/grid^2, its u and v are
\* un/|det| and vn/|det|, and its t is tn/(|det| * grid).
IntersectTriangleOn(r, tri, grid) ==
    LET edge1 == Sub(tri[2], tri[1])
        edge2 == Sub(tri[3], tri[1])
        h     == Cross(r.Dir, edge2)
        det   == Dot(edge1, h)
        s     == Sub(r.Origin, tri[1])
        un    == Sgn(det) * Dot(s, h)
        q     == Cross(s, edge1)
        vn    == Sgn(det) * Dot(r.Dir, q)
        tn    == Sgn(det) * Dot(edge2, q)
    IN  IF BelowEpsilon(det, grid * grid) /\ BelowEpsilon(-det, grid * grid) THEN NoHit
        ELSE IF un < 0 \/ un > Abs(det) THEN NoHit
        ELSE IF vn < 0 \/ un + vn > Abs(det) THEN NoHit
        ELSE IF BelowEpsilon(tn, Abs(det) * grid) THEN NoHit
        ELSE [t |-> [n |-> tn, d |-> Abs(det) * grid], ok |-> TRUE]

\* r.IntersectTriangle(tri) on coordinates in whole units.
IntersectTriangle(r, tri) == IntersectTriangleOn(r, tri, 1)

\* The triangle of the mesh with the (0-based) vertex indices idxs.
MeshTriangle(mesh, idxs) == [i \in 1..3 |-> mesh.Verts[idxs[i] + 1]]

\* A faulty variant in which a triangle that is missed clears haveMin.
IntersectMeshStepMissClears(acc, res) ==
    IF ~res.ok THEN NoHit
    ELSE IF ~acc.ok \/ RLess(res.t, acc.t) THEN [t |-> res.t, ok |-> TRUE]
    ELSE acc

\* One iteration of the loop over mesh.Tris.  acc = [t, ok] holds minT and
\* haveMin; res is what IntersectTriangle returned.
IntersectMeshStep(acc, res) ==
    IF ~res.ok THEN acc
    ELSE IF ~acc.ok \/ RLess(res.t, acc.t) THEN [t |-> res.t, ok |-> TRUE]
    ELSE acc

IntersectMesh(r, mesh) ==
    LET acc[k \in 0..Len(mesh.Tris)] ==
            IF k = 0 THEN NoHit
            ELSE IntersectMeshStep(acc[k - 1],
                     IntersectTriangle(r, MeshTriangle(mesh, mesh.Tris[k])))
    IN  acc[Len(mesh.Tris)]

(***************************************************************************)
(* float32.  A uint32 is its top bit and the 31 bits below it; a float32   *)
(* is its sign, its exponent and its fraction.                             *)
(***************************************************************************)
Uint32(top, low) == [top |-> top, low |-> low]

\* math.Float32bits of the whole number n, |n| < 2^24.
Float32bits(n) ==
    IF n = 0 THEN Uint32(0, 0)
    ELSE LET a == Abs(n)
             e == CHOOSE k \in 0..23 : 2^k <= a /\ a < 2^(k + 1)
         IN  Uint32(IF n < 0 THEN 1 ELSE 0,
                    (127 + e) * 2^23 + (a * 2^(23 - e) - 2^23))

Float32frombits(b) ==
    [neg |-> b.top = 1, exp |-> b.low \div 2^23, frac |-> b.low % 2^23]

IsNaN(x) == x.exp = 255 /\ x.frac # 0

IsZero(x) == x.exp = 0 /\ x.frac = 0

\* x == y on float32: a NaN equals nothing, the two zeros are equal.
Float32Equal(x, y) ==
    /\ ~IsNaN(x)
    /\ ~IsNaN(y)
    /\ x = y \/ (IsZero(x) /\ IsZero(y))

\* a == b on [3]float32, the key type of vertMap.
KeyEqual(a, b) == \A c \in 1..3 : Float32Equal(a[c], b[c])

\* float64(x), for x a whole number.
Float64(x) ==
    IF IsZero(x) THEN 0
    ELSE (IF x.neg THEN -1 ELSE 1) * ((2^23 + x.frac) \div 2^(150 - x.exp))

(***************************************************************************)
(* The STL reader.  A file is its declared triangle count and the          *)
(* triangles that follow it, each three vertices of three uint32.          *)
(***************************************************************************)
\* The house: a roof above the test points and a wall to their north,
\* which share a vertex.  The trees: a canopy above the test points, a
\* hedge to their east and a shrub below the upper test point.
Roof   == <<Vec(-2, -2, 4), Vec(4, -2, 4), Vec(-2, 4, 4)>>
Wall   == <<Vec(-2, 4, 4), Vec(-2, 4, -4), Vec(6, 4, 4)>>
Canopy == <<Vec(-2, -2, 5), Vec(4, -2, 5), Vec(-2, 4, 5)>>
Hedge  == <<Vec(4, -2, -2), Vec(4, 4, -2), Vec(4, -2, 6)>>
Shrub  == <<Vec(-2, -2, 1), Vec(4, -2, 1), Vec(-2, 4, 1)>>

\* The bytes of a triangle of whole coordinates.
TriangleBits(tri) == [v \in 1..3 |-> [c \in 1..3 |-> Float32bits(tri[v][c])]]

Paths == {"house.stl", "house-copy.stl", "house-trees.stl", "bad.stl", "missing.stl"}

\* The files on disk: "house-copy.stl" holds the triangles of "house.stl",
\* "missing.stl" does not exist and "bad.stl" ends before its second
\* triangle.
STLFile(path) ==
    CASE path \in {"house.stl", "house-copy.stl"} ->
           [exists |-> TRUE, NTri |-> 2, tris |-> <<TriangleBits(Roof), TriangleBits(Wall)>>]
      [] path = "house-trees.stl" ->
           [exists |-> TRUE, NTri |-> 3, tris |-> <<TriangleBits(Canopy), TriangleBits(Hedge), TriangleBits(Shrub)>>]
      [] path = "bad.stl" ->
           [exists |-> TRUE, NTri |-> 2, tris |-> <<TriangleBits(Roof)>>]
      [] OTHER ->
           [exists |-> FALSE, NTri |-> 0, tris |-> <<>>]

EmptyMesh == [Verts |-> <<>>, Tris |-> <<>>]

\* A faulty variant that looks the vertex up by its bits.
WeldVertexByBits(st, vert) ==
    LET found == {k \in 1..Len(st.vertMap) : st.vertMap[k].key = vert}
    IN  IF found # {}
        THEN [st EXCEPT !.tri = Append(st.tri, st.vertMap[CHOOSE k \in found : TRUE].index)]
        ELSE [Verts   |-> Append(st.Verts, vert),
              vertMap |-> Append(st.vertMap, [key |-> vert, index |-> Len(st.Verts)]),
              tri     |-> Append(st.tri, Len(st.Verts))]

\* One vertex of the welding loop: look the vertex up in vertMap, append
\* it to Verts when it is not found.  st = [Verts, vertMap, tri]; vertMap
\* is the entries of the map in the order they were made.  A key is found
\* when it is == to the vertex: no two entries are found for one vertex,
\* and an entry whose key holds a NaN is never found.
WeldVertex(st, vert) ==
    LET found == {k \in 1..Len(st.vertMap) : KeyEqual(st.vertMap[k].key, vert)}
    IN  IF found # {}
        THEN [st EXCEPT !.tri = Append(st.tri, st.vertMap[CHOOSE k \in found : TRUE].index)]
        ELSE [Verts   |-> Append(st.Verts, vert),
              vertMap |-> Append(st.vertMap, [key |-> vert, index |-> Len(st.Verts)]),
              tri     |-> Append(st.tri, Len(st.Verts))]

\* The coordinates of a vertex, read from its bytes.
ReadVertex(bits) == [c \in 1..3 |-> Float32frombits(bits[c])]

\* One iteration of the loop over the triangles.  st = [Verts, vertMap,
\* Tris].
ReadTriangle(st, t) ==
    LET s0 == [Verts |-> st.Verts, vertMap |-> st.vertMap, tri |-> <<>>]
        s3 == WeldVertex(WeldVertex(WeldVertex(s0, ReadVertex(t[1])),
                                    ReadVertex(t[2])), ReadVertex(t[3]))
    IN  [Verts |-> s3.Verts, vertMap |-> s3.vertMap, Tris |-> Append(st.Tris, s3.tri)]

\* io.ReadFull fails when the file ends before its NTri triangles.
ReadSTL(file) ==
    LET st[i \in 0..Len(file.tris)] ==
            IF i = 0 THEN [Verts |-> <<>>, vertMap |-> <<>>, Tris |-> <<>>]
            ELSE ReadTriangle(st[i - 1], file.tris[i])
    IN  IF Len(file.tris) < file.NTri THEN [err |-> TRUE, mesh |-> EmptyMesh]
        ELSE [err  |-> FALSE,
              mesh |-> [Verts |-> st[file.NTri].Verts, Tris |-> st[file.NTri].Tris]]

\* os.Open followed by ReadSTL, for every path.
OpenAndRead == [p \in Paths |-> [exists |-> STLFile(p).exists, read |-> ReadSTL(STLFile(p))]]

\* The mesh of a layer is the float64 copy of the mesh that ReadSTL read.
Float64Mesh(mesh) ==
    [Verts |-> [i \in 1..Len(mesh.Verts) |-> [c \in 1..3 |-> Float64(mesh.Verts[i][c])]],
     Tris  |-> mesh.Tris]

LayerMeshes == [p \in Paths |-> Float64Mesh(OpenAndRead[p].read.mesh)]

\* A layer holds a pointer to its mesh: the model's pointer is the path
\* the mesh was read from.
MeshAt(ptr) == LayerMeshes[ptr]

(***************************************************************************)
(* Time.                                                                   *)
(***************************************************************************)
SampleDays == <<1, 59, 82, 105, 151, 200, 243, 256, 295, 334, 335, 365>>

Year(t) == BaseYear + t \div TicksPerYear

YearDay(t) == SampleDays[1 + ((t % TicksPerYear) * Len(SampleDays)) \div TicksPerYear]

(***************************************************************************)
(* sun.go: the sun's position and the ray toward it.                       *)
(***************************************************************************)
\* What suncalc.GetPosition returns, in quarter turns (pi/2 radians):
\* the altitude, and the azimuth in suncalc's convention (-1 east, 0
\* south, 1 west, 2 north).
Sky ==
    << [Altitude |-> -1, Azimuth |-> 0],
       [Altitude |-> 1,  Azimuth |-> 0],
       [Altitude |-> 0,  Azimuth |-> -1],
       [Altitude |-> 0,  Azimuth |-> 2],
       [Altitude |-> 0,  Azimuth |-> 0],
       [Altitude |-> 0,  Azimuth |-> 1] >>

suncalcGetPosition(t, latitude, longitude) ==
    Sky[1 + ((t + 2 * latitude) % Len(Sky))]

\* rad2deg times a quarter turn is 90 degrees.
GetSunPos(t, latitude, longitude) ==
    LET p == suncalcGetPosition(t, latitude, longitude)
    IN  [T |-> t, Altitude |-> p.Altitude * 90, Azimuth |-> p.Azimuth * 90 + 180]

\* math.Sin and math.Cos of an angle in degrees, a multiple of 90.
SinDeg(a) == CASE a % 360 = 0 -> 0 [] a % 360 = 90 -> 1 [] a % 360 = 180 -> 0 [] a % 360 = 270 -> -1

CosDeg(a) == SinDeg(a + 90)

SunPosRay(p, origin) ==
    [Origin |-> Vec(origin[1], origin[2], origin[3]),
     Dir    |-> Unit(Vec(SinDeg(p.Azimuth) * CosDeg(p.Altitude),
                         CosDeg(p.Azimuth) * CosDeg(p.Altitude),
                         SinDeg(p.Altitude)))]

(***************************************************************************)
(* sun.go: GlobalIntensity.  A float64 is modelled by an enclosure: two    *)
(* integers lo <= hi, in millionths, between which the number lies, or     *)
(* NaN.  Sums, products and quotients round lo down and hi up.  math.Cos   *)
(* and math.Pow are given at the arguments the model reaches, each value   *)
(* enclosed to a millionth.                                                *)
(***************************************************************************)
Micro == 1000000

Kilo == 1000

NaN == [lo |-> 0, hi |-> 0, nan |-> TRUE]

Num(lo, hi) == [lo |-> lo, hi |-> hi, nan |-> FALSE]

\* The product of two millionths a, b >= 0, in millionths, rounded down;
\* the factors are split so that no intermediate product leaves 32 bits.
MulDown(a, b) ==
    (a \div Kilo) * (b \div Kilo)
    + ((a \div Kilo) * (b % Kilo) + (a % Kilo) * (b \div Kilo)
       + ((a % Kilo) * (b % Kilo)) \div Kilo) \div Kilo

\* 1/d for d > 0 millionths, in millionths, rounded down.
RecipDown(d) ==
    ((Kilo * Micro) \div d) * Kilo + (((Kilo * Micro) % d) * Kilo) \div d

IAdd(x, y) == IF x.nan \/ y.nan THEN NaN ELSE Num(x.lo + y.lo, x.hi + y.hi)

\* x * y for x, y >= 0.
IMul(x, y) ==
    IF x.nan \/ y.nan THEN NaN
    ELSE Num(MulDown(x.lo, y.lo), MulDown(x.hi, y.hi) + 1)

\* 1 - x
IOneMinus(x) == IF x.nan THEN NaN ELSE Num(Micro - x.hi, Micro - x.lo)

\* n * x for an integer n >= 0.
ITimes(n, x) == IF x.nan THEN NaN ELSE Num(n * x.lo, n * x.hi)

\* 1 / x for x > 0.
IRecip(x) == IF x.nan THEN NaN ELSE Num(RecipDown(x.hi), RecipDown(x.lo) + 1)

\* math.Cos(deg * (math.Pi / 180))
mathCos(deg) ==
    CASE deg = 0   -> Num(1000000, 1000000)
      [] deg = 45  -> Num(707106, 707107)
      [] deg = 89  -> Num(17452, 17453)
      [] deg = 90  -> Num(0, 1)
      [] deg = 91  -> Num(-17453, -17452)
      [] deg = 135 -> Num(-707107, -707106)
      [] deg = 180 -> Num(-1000000, -1000000)

\* math.Pow(x, y) for x, y in millionths, at the points the model reaches.
PowPoints ==
    {
     [x |-> 700000, y |-> 999804, lo |-> 700048, hi |-> 700049],
     [x |-> 700000, y |-> 999807, lo |-> 700048, hi |-> 700049],
     [x |-> 700000, y |-> 1263896, lo |-> 637118, hi |-> 637119],
     [x |-> 700000, y |-> 1263901, lo |-> 637117, hi |-> 637118],
     [x |-> 700000, y |-> 9179879, lo |-> 37845, hi |-> 37846],
     [x |-> 700000, y |-> 9180372, lo |-> 37839, hi |-> 37840],
     [x |-> 700000, y |-> 11761259, lo |-> 15071, hi |-> 15072],
     [x |-> 700000, y |-> 11761865, lo |-> 15068, hi |-> 15069],
     [x |-> 700000, y |-> 15274747, lo |-> 4304, hi |-> 4305],
     [x |-> 700000, y |-> 15276481, lo |-> 4301, hi |-> 4302],
     [x |-> 999711, y |-> 678000, lo |-> 999804, hi |-> 999805],
     [x |-> 999714, y |-> 678000, lo |-> 999806, hi |-> 999807],
     [x |-> 1412592, y |-> 678000, lo |-> 1263896, hi |-> 1263897],
     [x |-> 1412599, y |-> 678000, lo |-> 1263900, hi |-> 1263901],
     [x |-> 5079950, y |-> -1636400, lo |-> 69973, hi |-> 69974],
     [x |-> 6079950, y |-> -1636400, lo |-> 52146, hi |-> 52147],
     [x |-> 7079950, y |-> -1636400, lo |-> 40645, hi |-> 40646],
     [x |-> 26309558, y |-> 678000, lo |-> 9179879, hi |-> 9179880],
     [x |-> 26311636, y |-> 678000, lo |-> 9180371, hi |-> 9180372],
     [x |-> 37917567, y |-> 678000, lo |-> 11761259, hi |-> 11761260],
     [x |-> 37920443, y |-> 678000, lo |-> 11761864, hi |-> 11761865],
     [x |-> 51079950, y |-> -1636400, lo |-> 1601, hi |-> 1602],
     [x |-> 55753791, y |-> 678000, lo |-> 15274747, hi |-> 15274748],
     [x |-> 55763119, y |-> 678000, lo |-> 15276480, hi |-> 15276481],
     [x |-> 96079950, y |-> -1636400, lo |-> 569, hi |-> 570]
    }

\* math.Pow(x, y); a negative x with a fractional y gives NaN.
mathPow(x, y) ==
    IF x < 0 THEN NaN
    ELSE LET pt == CHOOSE q \in PowPoints : q.x = x /\ q.y = y
         IN  Num(pt.lo, pt.hi)

\* math.Pow(x, y) for x > 0 an enclosure and y > 0: it grows with x.
PowOfBase(x, y) ==
    IF x.nan THEN NaN ELSE Num(mathPow(x.lo, y).lo, mathPow(x.hi, y).hi)

\* math.Pow(x, y) for 0 < x < 1 and y an enclosure: it falls with y.
PowOfExp(x, y) ==
    IF y.nan THEN NaN ELSE Num(mathPow(x, y.hi).lo, mathPow(x, y.lo).hi)

\* Light, a fraction, in millionths.
LightMicro(l) == Num((l.n * Micro) \div l.d, (l.n * Micro + l.d - 1) \div l.d)

\* airMass := 1 / (cos(zenithAngle) + 0.50572 * (96.07995 - zenithAngle)^-1.6364)
AirMass(zenithAngle) ==
    IRecip(IAdd(mathCos(zenithAngle),
                IMul(Num(505720, 505720),
                     mathPow(96079950 - zenithAngle * Micro, -1636400))))

\* a * h, h := elevationFeet * 0.0003048 and a := 0.14
ElevationTerm(elevationFeet) ==
    IMul(Num(140000, 140000),
         Num((elevationFeet * 3048) \div 10, (elevationFeet * 3048 + 9) \div 10))

\* iDirect := 1353 * ((1 - a*h) * 0.7^(airMass^0.678) + a*h)
Direct(airMass, ah) ==
    ITimes(1353, IAdd(IMul(IOneMinus(ah),
                           PowOfExp(700000, PowOfBase(airMass, 678000))),
                      ah))

\* A faulty variant that does not look at the horizon.
GlobalIntensityNoHorizon(p, elevationFeet) ==
    IMul(IAdd(Num(100000, 100000), LightMicro(p.Light)),
         Direct(AirMass(90 - p.SunPos.Altitude), ElevationTerm(elevationFeet)))

\* A faulty variant that leaves the diffuse radiation out.
GlobalIntensityNoDiffuse(p, elevationFeet) ==
    IF p.SunPos.Altitude < 0 THEN Num(0, 0)
    ELSE IMul(LightMicro(p.Light),
              Direct(AirMass(90 - p.SunPos.Altitude), ElevationTerm(elevationFeet)))

\* p.GlobalIntensity(elevationFeet), p a SunLight: watts per square meter.
GlobalIntensity(p, elevationFeet) ==
    IF p.SunPos.Altitude < 0 THEN Num(0, 0)
    ELSE IMul(IAdd(Num(100000, 100000), LightMicro(p.Light)),
              Direct(AirMass(90 - p.SunPos.Altitude), ElevationTerm(elevationFeet)))

(***************************************************************************)
(* model.go: layers and their transmissivity.                              *)
(***************************************************************************)
\* The closure AddBuildings passes to addLayer.
transBuildings(date) == RZero

\* A faulty variant whose fall uses the length of the spring.
transOfDayFallAsSpring(day) ==
    IF day <= Feb28 THEN Rat(1, 2)
    ELSE IF day <= May31
         THEN RAdd(Rat(1, 2), RMul(Rat(day - Feb28, May31 - Feb28),
                                   RSub(Rat(1, 20), Rat(1, 2))))
    ELSE IF day <= Aug31 THEN Rat(1, 20)
    ELSE IF day <= Nov30
         THEN RAdd(Rat(1, 20), RMul(Rat(day - Aug31, May31 - Feb28),
                                    RSub(Rat(1, 2), Rat(1, 20))))
    ELSE Rat(1, 2)

\* The switch of the closure AddFoliage passes to addLayer, day being
\* date.YearDay().
transOfDay(day) ==
    IF day <= Feb28 THEN Rat(1, 2)
    ELSE IF day <= May31
         THEN RAdd(Rat(1, 2), RMul(Rat(day - Feb28, May31 - Feb28),
                                   RSub(Rat(1, 20), Rat(1, 2))))
    ELSE IF day <= Aug31 THEN Rat(1, 20)
    ELSE IF day <= Nov30
         THEN RAdd(Rat(1, 20), RMul(Rat(day - Aug31, Nov30 - Aug31),
                                    RSub(Rat(1, 2), Rat(1, 20))))
    ELSE Rat(1, 2)

\* The closure AddFoliage passes to addLayer.
transFoliage(date) == transOfDay(YearDay(date))

\* l.transmissivity(date): a layer holds the name of its closure.
transmissivity(l, date) ==
    IF l.trans = "foliage" THEN transFoliage(date) ELSE transBuildings(date)

(***************************************************************************)
(* The inputs of the model: where the model stands, the test points.       *)
(***************************************************************************)
Lats == {42}

Lons == {-71}

Elevations == {200}

TestPositions == {<<0, 0, 0>>, <<0, 0, 3>>}

\* Every ray the model can cast, and the answer of IntersectMesh for each
\* of them and each path, computed once.
Rays ==
    {SunPosRay([Altitude |-> Sky[k].Altitude * 90, Azimuth |-> Sky[k].Azimuth * 90 + 180], o) :
        k \in 1..Len(Sky), o \in TestPositions}

IntersectMeshAnswers == [r \in Rays, p \in Paths |-> IntersectMesh(r, MeshAt(p))]

\* sunRay.IntersectMesh(l.mesh)
IntersectLayer(sunRay, ptr) == IntersectMeshAnswers[sunRay, ptr]

(***************************************************************************)
(* sun.go: computeSunLight.  Besides the samples, the model keeps the log  *)
(* of the IntersectMesh calls made: the sample's index, the layer's index  *)
(* and the answer.                                                         *)
(***************************************************************************)
\* Faulty variants of the loop body, against which the properties of
\* computeSunLight are tested.  The first never records a building hit.
LayerStepNoBuildingFlag(acc, l, k, i, hit, t) ==
    [light    |-> IF hit /\ acc.light # RZero
                  THEN RMul(acc.light, transmissivity(l, t))
                  ELSE acc.light,
     foliage  |-> IF hit /\ l.foliage THEN TRUE ELSE acc.foliage,
     building |-> acc.building,
     tests    |-> Append(acc.tests, [i |-> i, layer |-> k, hit |-> hit])]

\* The second attenuates the light whether or not the layer is hit.
LayerStepAlwaysAttenuates(acc, l, k, i, hit, t) ==
    [light    |-> IF acc.light # RZero
                  THEN RMul(acc.light, transmissivity(l, t))
                  ELSE acc.light,
     foliage  |-> IF hit /\ l.foliage THEN TRUE ELSE acc.foliage,
     building |-> IF hit /\ ~l.foliage THEN TRUE ELSE acc.building,
     tests    |-> Append(acc.tests, [i |-> i, layer |-> k, hit |-> hit])]

\* The third lets the last layer hit decide the light and the flags.
LayerStepLastHitWins(acc, l, k, i, hit, t) ==
    [light    |-> IF hit THEN transmissivity(l, t) ELSE acc.light,
     foliage  |-> IF hit THEN l.foliage ELSE acc.foliage,
     building |-> IF hit THEN ~l.foliage ELSE acc.building,
     tests    |-> Append(acc.tests, [i |-> i, layer |-> k, hit |-> hit])]

\* The fourth takes what the layer absorbs off the light.
LayerStepSubtracts(acc, l, k, i, hit, t) ==
    [light    |-> IF hit /\ acc.light # RZero
                  THEN RSub(acc.light, RSub(ROne, transmissivity(l, t)))
                  ELSE acc.light,
     foliage  |-> IF hit /\ l.foliage THEN TRUE ELSE acc.foliage,
     building |-> IF hit /\ ~l.foliage THEN TRUE ELSE acc.building,
     tests    |-> Append(acc.tests, [i |-> i, layer |-> k, hit |-> hit])]

\* The fifth leaves the flags alone once the light is 0.
LayerStepSkipsFlags(acc, l, k, i, hit, t) ==
    IF hit /\ acc.light # RZero
    THEN [light    |-> RMul(acc.light, transmissivity(l, t)),
          foliage  |-> IF l.foliage THEN TRUE ELSE acc.foliage,
          building |-> IF ~l.foliage THEN TRUE ELSE acc.building,
          tests    |-> Append(acc.tests, [i |-> i, layer |-> k, hit |-> hit])]
    ELSE [acc EXCEPT !.tests = Append(acc.tests, [i |-> i, layer |-> k, hit |-> hit])]

\* One iteration of the loop over m.layers, hit being what IntersectMesh
\* answered for the layer.  acc = [light, building, foliage, tests].
LayerStep(acc, l, k, i, hit, t) ==
    [light    |-> IF hit /\ acc.light # RZero
                  THEN RMul(acc.light, transmissivity(l, t))
                  ELSE acc.light,
     foliage  |-> IF hit /\ l.foliage THEN TRUE ELSE acc.foliage,
     building |-> IF hit /\ ~l.foliage THEN TRUE ELSE acc.building,
     tests    |-> Append(acc.tests, [i |-> i, layer |-> k, hit |-> hit])]

RECURSIVE LayerLoop(_, _, _, _, _, _)
LayerLoop(acc, layers, k, i, sunRay, t) ==
    IF k > Len(layers) THEN acc
    ELSE LayerLoop(LayerStep(acc, layers[k], k, i,
                             IntersectLayer(sunRay, layers[k].mesh).ok, t),
                   layers, k + 1, i, sunRay, t)

\* Before the loop over m.layers: light := 1.0, no building, no foliage.
NoLayerYet == [light |-> ROne, building |-> FALSE, foliage |-> FALSE, tests |-> <<>>]

\* A faulty variant that reports foliage whenever a foliage layer is hit.
SampleOfFoliageAnyway(sunPos, acc) ==
    [out   |-> [SunPos |-> sunPos, Light |-> acc.light, Foliage |-> acc.foliage],
     tests |-> acc.tests]

\* After the loop over m.layers: the sample, and the tests made for it.
SampleOf(sunPos, acc) ==
    [out   |-> [SunPos |-> sunPos, Light |-> acc.light,
                Foliage |-> acc.foliage /\ ~acc.building],
     tests |-> acc.tests]

\* A faulty variant that casts the ray without looking at the sun's
\* altitude.
SampleForNoHorizon(model, pos, t, i, sunPos) ==
    SampleOf(sunPos, LayerLoop(NoLayerYet, model.layers, 1, i, SunPosRay(sunPos, pos), t))

\* The body of the loop over times, from the sun's position on.
SampleFor(model, pos, t, i, sunPos) ==
    IF sunPos.Altitude < 0
    THEN [out   |-> [SunPos |-> sunPos, Light |-> RZero, Foliage |-> FALSE],
          tests |-> <<>>]
    ELSE SampleOf(sunPos, LayerLoop(NoLayerYet, model.layers, 1, i,
                                    SunPosRay(sunPos, pos), t))

\* The body of the loop over times: the sample for times[i] and the
\* intersection tests made for it.
SampleAt(model, pos, t, i) == SampleFor(model, pos, t, i, GetSunPos(t, model.lat, model.lon))

RECURSIVE TestsFrom(_, _)
TestsFrom(samples, i) ==
    IF i > Len(samples) THEN <<>>
    ELSE samples[i].tests \o TestsFrom(samples, i + 1)

\* What the loop over times leaves: light, and the tests in the order made.
Collect(samples) ==
    [light |-> [i \in 1..Len(samples) |-> samples[i].out],
     tests |-> TestsFrom(samples, 1)]

\* A faulty variant that fills the output from its far end.
computeSunLightReversed(model, pos, ts) ==
    Collect([i \in 1..Len(ts) |-> SampleAt(model, pos, ts[Len(ts) + 1 - i], i)])

\* A faulty variant that declares light, building and foliage outside the
\* loop over times: a sample starts from what the sample before it left.
computeSunLightKeepsState(model, pos, ts) ==
    LET acc[i \in 0..Len(ts)] ==
            IF i = 0 THEN NoLayerYet
            ELSE LET sunPos == GetSunPos(ts[i], model.lat, model.lon)
                 IN  IF sunPos.Altitude < 0 THEN acc[i - 1]
                     ELSE LayerLoop([acc[i - 1] EXCEPT !.tests = <<>>], model.layers, 1, i,
                                    SunPosRay(sunPos, pos), ts[i])
    IN  Collect([i \in 1..Len(ts) |->
                    LET sunPos == GetSunPos(ts[i], model.lat, model.lon)
                    IN  IF sunPos.Altitude < 0
                        THEN SampleAt(model, pos, ts[i], i)
                        ELSE SampleOf(sunPos, acc[i])])

computeSunLight(model, pos, ts) ==
    Collect([i \in 1..Len(ts) |-> SampleAt(model, pos, ts[i], i)])


(***************************************************************************)
(* sunpos.go: the POV-Ray backend.  The program writes requests after the  *)
(* scene, POV-Ray answers them into a file of bytes, and the program reads *)
(* the bytes back.  The file holds two revisions of the backend:           *)
(* computeSunPos, where POV-Ray also computes the sun's position and       *)
(* writes its altitude, and the later computeSunLight.                     *)
(***************************************************************************)
MaxInt32 == 2147483647

\* POV-Ray's sint32le: the four bytes of a 32-bit two's complement
\* integer, the lowest first.
Sint32le(n) ==
    LET low == IF n >= 0 THEN n ELSE (MaxInt32 + n) + 1
    IN  <<low % 256, (low \div 256) % 256, (low \div 65536) % 256,
          (low \div 16777216) + (IF n >= 0 THEN 0 ELSE 128)>>

\* int32(binary.LittleEndian.Uint32(b))
Int32LittleEndian(b) ==
    LET low == b[1] + 256 * b[2] + 65536 * b[3] + 16777216 * (b[4] % 128)
    IN  IF b[4] < 128 THEN low ELSE (low - MaxInt32) - 1

\* The requests written for sun position i: setSun, then testHit on every
\* layer.
SunRequests(layers, i) ==
    <<[op |-> "setSun", i |-> i, layer |-> 0]>> \o
    [k \in 1..Len(layers) |-> [op |-> "testHit", i |-> i, layer |-> k]]

\* The testHit macro: trace from TestPos toward Sun, and one byte written,
\* 1 if the mesh is hit.
testHit(model, pos, pose, k) ==
    IF IntersectLayer(SunPosRay(pose, pos), model.layers[k].mesh).ok THEN <<1>> ELSE <<0>>

\* What the file read back may hold: what POV-Ray wrote for the requests,
\* or, the file being another process's, a byte less or a byte more.
Damages == {"none", "short", "long"}

Damaged(bytes, damage) ==
    CASE damage = "none"  -> bytes
      [] damage = "short" -> SubSeq(bytes, 1, Len(bytes) - 1)
      [] damage = "long"  -> Append(bytes, 0)

\* One read of the loop over m.layers in either reader: outData[0], then
\* outData = outData[1:].  st.panic is the index out of range on an empty
\* outData; st.reads logs what was read: the sample and the layer, layer 0
\* standing for the four bytes of an altitude.
ReadByte(st, i, k) ==
    IF st.outData = <<>> THEN [st EXCEPT !.panic = TRUE]
    ELSE [st EXCEPT !.outData = Tail(st.outData),
                    !.reads = Append(st.reads, [i |-> i, layer |-> k])]

\* How a reader ends: the panic, log.Fatalf on left-over output, or the
\* return of poses.
Ending(st, reqs, written) ==
    [status   |-> IF st.panic THEN "panic"
                  ELSE IF Len(st.outData) > 0 THEN "fatal" ELSE "returned",
     poses    |-> IF st.panic \/ Len(st.outData) > 0 THEN <<>> ELSE st.poses,
     requests |-> reqs,
     reads    |-> st.reads,
     outData  |-> written]

(***************************************************************************)
(* sunpos.go: computeSunPos, the earlier revision.                         *)
(***************************************************************************)
\* The writer: requests for every timestamp.
RECURSIVE SunPosRequests(_, _, _)
SunPosRequests(model, ts, i) ==
    IF i > Len(ts) THEN <<>>
    ELSE SunRequests(model.layers, i) \o SunPosRequests(model, ts, i + 1)

\* POV-Ray on the requests: setSun computes the sun's position from the
\* date and writes its altitude, a fraction of 90 degrees scaled to int32.
RECURSIVE SunPosOutput(_, _, _, _, _)
SunPosOutput(model, pos, ts, reqs, n) ==
    IF n > Len(reqs) THEN <<>>
    ELSE LET q    == reqs[n]
             pose == GetSunPos(ts[q.i], model.lat, model.lon)
         IN  (IF q.op = "setSun"
              THEN Sint32le((pose.Altitude \div 90) * MaxInt32)
              ELSE testHit(model, pos, pose, q.layer))
             \o SunPosOutput(model, pos, ts, reqs, n + 1)

\* The loop over m.layers of the reader.
RECURSIVE SunPosLayers(_, _, _, _, _)
SunPosLayers(st, layers, k, i, t) ==
    IF k > Len(layers) \/ st.panic THEN st
    ELSE LET hit  == st.outData[1] # 0
             read == ReadByte(st, i, k)
         IN  SunPosLayers(IF ~read.panic /\ hit /\ st.light # RZero
                          THEN [read EXCEPT !.light = RMul(st.light, transmissivity(layers[k], t))]
                          ELSE read,
                          layers, k + 1, i, t)

\* The loop over times of the reader: the altitude's four bytes, then the
\* layers' bytes.
RECURSIVE SunPosRead(_, _, _, _)
SunPosRead(st, model, ts, i) ==
    IF i > Len(ts) \/ st.panic THEN st
    ELSE IF Len(st.outData) < 4 THEN [st EXCEPT !.panic = TRUE]
    ELSE LET al   == RMul(Rat(Int32LittleEndian(st.outData), MaxInt32), Rat(90, 1))
             from == [st EXCEPT !.outData = SubSeq(st.outData, 5, Len(st.outData)),
                                !.reads = Append(st.reads, [i |-> i, layer |-> 0]),
                                !.light = ROne]
             to   == SunPosLayers(from, model.layers, 1, i, ts[i])
         IN  SunPosRead([to EXCEPT !.poses = Append(to.poses,
                                       [T |-> ts[i], Light |-> to.light, Altitude |-> al])],
                        model, ts, i + 1)

computeSunPos(model, pos, ts, damage) ==
    LET reqs    == SunPosRequests(model, ts, 1)
        written == Damaged(SunPosOutput(model, pos, ts, reqs, 1), damage)
    IN  Ending(SunPosRead([outData |-> written, reads |-> <<>>, panic |-> FALSE,
                           poses |-> <<>>, light |-> ROne], model, ts, 1),
               reqs, written)

(***************************************************************************)
(* sunpos.go: computeSunLight, the later revision.                         *)
(***************************************************************************)
\* A faulty variant of the writer that also tests the points below the
\* horizon.
SunLightRequestsNoHorizon(model, poses) ==
    LET from[i \in 1..(Len(poses) + 1)] ==
            IF i > Len(poses) THEN <<>> ELSE SunRequests(model.layers, i) \o from[i + 1]
    IN  from[1]

\* The writer: requests for the sun positions above the horizon.
SunLightRequests(model, poses) ==
    LET from[i \in 1..(Len(poses) + 1)] ==
            IF i > Len(poses) THEN <<>>
            ELSE (IF poses[i].Altitude < 0 THEN <<>> ELSE SunRequests(model.layers, i))
                 \o from[i + 1]
    IN  from[1]

\* POV-Ray on the requests: setSun writes nothing.
RECURSIVE SunLightOutput(_, _, _, _, _)
SunLightOutput(model, pos, poses, reqs, n) ==
    IF n > Len(reqs) THEN <<>>
    ELSE (IF reqs[n].op = "setSun" THEN <<>>
          ELSE testHit(model, pos, poses[reqs[n].i], reqs[n].layer))
         \o SunLightOutput(model, pos, poses, reqs, n + 1)

\* A faulty variant of the loop body in which foliage hides a building.
SunLightLayerFoliageWins(st, l, k, i, t) ==
    IF st.outData = <<>> THEN [st EXCEPT !.panic = TRUE]
    ELSE LET hit  == st.outData[1] # 0
             read == ReadByte(st, i, k)
         IN  [read EXCEPT
                !.light    = IF hit /\ st.light # RZero
                             THEN RMul(st.light, transmissivity(l, t)) ELSE st.light,
                !.foliage  = IF hit /\ l.foliage THEN TRUE ELSE st.foliage,
                !.building = IF hit /\ ~l.foliage THEN ~st.foliage ELSE st.building]

\* One iteration of the loop over m.layers of the reader.
SunLightLayer(st, l, k, i, t) ==
    IF st.outData = <<>> THEN [st EXCEPT !.panic = TRUE]
    ELSE LET hit  == st.outData[1] # 0
             read == ReadByte(st, i, k)
         IN  [read EXCEPT
                !.light    = IF hit /\ st.light # RZero
                             THEN RMul(st.light, transmissivity(l, t)) ELSE st.light,
                !.foliage  = IF hit /\ l.foliage THEN TRUE ELSE st.foliage,
                !.building = IF hit /\ ~l.foliage THEN TRUE ELSE st.building]

RECURSIVE SunLightLayers(_, _, _, _, _)
SunLightLayers(st, layers, k, i, t) ==
    IF k > Len(layers) \/ st.panic THEN st
    ELSE SunLightLayers(SunLightLayer(st, layers[k], k, i, t), layers, k + 1, i, t)

\* The loop over poses of the reader.
RECURSIVE SunLightRead(_, _, _, _)
SunLightRead(st, model, ts, i) ==
    IF i > Len(ts) \/ st.panic THEN st
    ELSE IF st.poses[i].SunPos.Altitude < 0
    THEN SunLightRead([st EXCEPT !.poses[i].Light = RZero, !.poses[i].Foliage = FALSE],
                      model, ts, i + 1)
    ELSE LET from == [st EXCEPT !.light = ROne, !.building = FALSE, !.foliage = FALSE]
             to   == SunLightLayers(from, model.layers, 1, i, ts[i])
         IN  SunLightRead([to EXCEPT !.poses[i].Light = to.light,
                                     !.poses[i].Foliage = to.foliage /\ ~to.building],
                          model, ts, i + 1)

povComputeSunLight(model, pos, ts, damage) ==
    LET poses   == [i \in 1..Len(ts) |-> GetSunPos(ts[i], model.lat, model.lon)]
        reqs    == SunLightRequests(model, poses)
        written == Damaged(SunLightOutput(model, pos, poses, reqs, 1), damage)
    IN  Ending(SunLightRead([outData |-> written, reads |-> <<>>, panic |-> FALSE,
                             poses |-> [i \in 1..Len(ts) |->
                                           [SunPos |-> poses[i], Light |-> RZero,
                                            Foliage |-> FALSE]],
                             light |-> ROne, building |-> FALSE, foliage |-> FALSE],
                            model, ts, 1),
               reqs, written)

(***************************************************************************)
(* The ticks of the time axes.  A time.Duration is counted in whole        *)
(* minutes.                                                                *)
(***************************************************************************)
Hour == 60 * Minute

\* Go's / and % on integers: the quotient is cut toward zero, and the
\* remainder has the sign of the dividend.
GoDiv(a, b) == IF a >= 0 THEN a \div b ELSE -((-a) \div b)

GoMod(a, b) == a - b * GoDiv(a, b)

durationScales ==
    <<12 * Hour, 3 * Hour, Hour, 30 * Minute, 10 * Minute, 5 * Minute, Minute>>

\* int((minD + scale - 1) / scale), the 1 being a nanosecond and minD a
\* number of whole minutes.
FirstTick(minD, scale) ==
    IF minD + scale >= 1 THEN (minD + scale - 1) \div scale
    ELSE -((-(minD + scale)) \div scale)

\* One iteration of the loop over durationScales; st = [best, minor,
\* bestNDelta].
ScaleStep(st, i, minD, maxD, targetTicks) ==
    LET scale == durationScales[i]
        n     == GoDiv(maxD, scale) - FirstTick(minD, scale) + 1
        delta == Abs(n - targetTicks)
    IN  IF n > 0 /\ (st.best = 0 \/ delta < st.bestNDelta)
        THEN [best |-> scale, bestNDelta |-> delta,
              minor |-> IF i + 1 <= Len(durationScales) THEN durationScales[i + 1] ELSE 0]
        ELSE st

optimizeDurationTicks(minD, maxD, targetTicks) ==
    LET after[i \in 0..Len(durationScales)] ==
            IF i = 0 THEN [best |-> 0, bestNDelta |-> 0, minor |-> 0]
            ELSE ScaleStep(after[i - 1], i, minD, maxD, targetTicks)
        end == after[Len(durationScales)]
    IN  IF end.best = 0
        THEN [best |-> durationScales[1], minor |-> durationScales[2]]
        ELSE [best |-> end.best, minor |-> end.minor]

\* dayBase.Add(t).Format("3:04PM")
Format304PM(t) ==
    LET hour == (t \div Hour) % 24
    IN  <<IF hour % 12 = 0 THEN 12 ELSE hour % 12, (t % Hour) \div Minute,
          IF hour < 12 THEN "AM" ELSE "PM">>

\* The label of a major tick of durationTicks.
DurationLabel(best, t) ==
    IF best % Hour = 0 THEN <<GoDiv(t, Hour), "h">>
    ELSE IF best % Minute = 0 THEN <<GoDiv(t, Hour), "h", GoMod(GoDiv(t, Minute), 60), "m">>
    ELSE <<t>>

\* The loop that generates the ticks, from the division that computes
\* first on: a division by zero is a run-time panic.
GenerateTicks(kind, minD, maxD, best, minor) ==
    IF minor = 0 THEN [panic |-> TRUE, ticks |-> <<>>]
    ELSE LET first       == FirstTick(minD, minor)
             last        == GoDiv(maxD, minor)
             minorFactor == GoDiv(best, minor)
         IN  IF first <= last /\ minorFactor = 0 THEN [panic |-> TRUE, ticks |-> <<>>]
             ELSE [panic |-> FALSE,
                   ticks |-> [k \in 1..(IF last >= first THEN last - first + 1 ELSE 0) |->
                                 LET i == first + k - 1
                                 IN  [Value |-> i * minor,
                                      Label |-> IF GoMod(i, minorFactor) # 0 THEN <<>>
                                                ELSE IF kind = "timeOfDayTicks"
                                                THEN Format304PM(i * minor)
                                                ELSE DurationLabel(best, i * minor)]]]

\* timeOfDayTicks{targetTicks}.Ticks(min, max) and
\* durationTicks{targetTicks}.Ticks(min, max)
Ticks(kind, targetTicks, minD, maxD) ==
    LET opt == optimizeDurationTicks(minD, maxD, targetTicks)
    IN  [best |-> opt.best, minor |-> opt.minor]
        @@ GenerateTicks(kind, minD, maxD, opt.best, opt.minor)

(***************************************************************************)
(* The changes of state of a plot and the polygons traced around them.  A  *)
(* time.Time is [day, tod]: the day counted from 1 January 2000 and the    *)
(* time of day in minutes, both in the time's own zone.  A slice of Go is  *)
(* indexed from 0: At(cs, k) is cs[k].                                     *)
(***************************************************************************)
sameDay(a, b) == a.day = b.day

findChanges(ts, states) ==
    LET upTo[i \in 0..Len(ts)] ==
            IF i = 0 THEN <<>>
            ELSE upTo[i - 1]
                 \o (IF states[i] # 0 /\ (i = 1 \/ ~sameDay(ts[i - 1], ts[i]))
                     THEN <<[t |-> ts[i], before |-> states[i], after |-> states[i]]>>
                     ELSE <<>>)
                 \o (IF i > 1 /\ states[i] # states[i - 1]
                     THEN <<[t |-> ts[i], before |-> states[i - 1], after |-> states[i]]>>
                     ELSE <<>>)
    IN  upTo[Len(ts)]

\* xy.X is noon of the day and xy.Y the time of day, xi the day's index.
makeVisualChanges(changes) ==
    [k \in 1..Len(changes) |->
        [t |-> changes[k].t, before |-> changes[k].before, after |-> changes[k].after,
         xy |-> [X |-> changes[k].t.day * 24 * Hour + 12 * Hour, Y |-> changes[k].t.tod],
         xi |-> changes[k].t.day]]

At(cs, k) == cs[k + 1]

InRange(cs, k) == 0 <= k /\ k < Len(cs)

overlaps(a1, a2, b1, b2) ==
    IF a1.after # a2.before \/ b1.after # b2.before
    THEN [panic |-> TRUE, val |-> FALSE]
    ELSE [panic |-> FALSE,
          val |-> a1.after = b1.after /\ b1.xy.Y < a2.xy.Y /\ a1.xy.Y < b2.xy.Y]

Largest(S) == CHOOSE j \in S : \A k \in S : k <= j

Smallest(S) == CHOOSE j \in S : \A k \in S : j <= k

Go(i, dir) == [panic |-> "", i |-> i, dir |-> dir]

Panic(what) == [panic |-> what, i |-> 0, dir |-> 0]

\* trace1, moving in the +X direction at cs[i]: the latest overlapping
\* segment on xi+1, and where the trace goes next.
NextRight(cs, i) ==
    LET reach == {j \in (i + 1)..(Len(cs) - 1) :
                     \A k \in (i + 1)..j : At(cs, k).xi <= At(cs, i).xi + 1}
        cand  == {j \in reach : At(cs, j).xi = At(cs, i).xi + 1}
    IN  IF cand # {} /\ i = 0 THEN Panic("index out of range")
        ELSE IF \E j \in cand :
                   overlaps(At(cs, i - 1), At(cs, i), At(cs, j - 1), At(cs, j)).panic
        THEN Panic("bad change span")
        ELSE LET hits == {j \in cand :
                             overlaps(At(cs, i - 1), At(cs, i), At(cs, j - 1), At(cs, j)).val}
             IN  IF hits = {} THEN Go(i - 1, -1)
                 ELSE LET best == Largest(hits)
                      IN  IF /\ At(cs, i + 1).xi = At(cs, i).xi
                             /\ At(cs, best - 1).xy.Y < At(cs, i + 1).xy.Y
                             /\ At(cs, i + 1).xy.Y < At(cs, best).xy.Y
                          THEN Go(i + 1, -1)
                          ELSE Go(best, 1)

\* trace1, moving in the -X direction at cs[i]: the earliest overlapping
\* segment on xi-1, and where the trace goes next.
NextLeft(cs, i) ==
    LET reach == {j \in 0..(i - 1) :
                     \A k \in j..(i - 1) : At(cs, k).xi >= At(cs, i).xi - 1}
        cand  == {j \in reach : At(cs, j).xi = At(cs, i).xi - 1}
    IN  IF cand # {} /\ i + 1 = Len(cs) THEN Panic("index out of range")
        ELSE IF \E j \in cand :
                   overlaps(At(cs, i), At(cs, i + 1), At(cs, j), At(cs, j + 1)).panic
        THEN Panic("bad change span")
        ELSE LET hits == {j \in cand :
                             overlaps(At(cs, i), At(cs, i + 1), At(cs, j), At(cs, j + 1)).val}
             IN  IF hits = {} THEN Go(i + 1, 1)
                 ELSE LET best == Smallest(hits)
                      IN  IF /\ i > 0
                             /\ At(cs, i - 1).xi = At(cs, i).xi
                             /\ At(cs, best).xy.Y < At(cs, i - 1).xy.Y
                             /\ At(cs, i - 1).xy.Y < At(cs, best + 1).xy.Y
                          THEN Go(i - 1, 1)
                          ELSE Go(best, -1)

\* The loop of trace1 from its test on.  The way from a point depends on
\* the point and the direction alone: a trace that comes to a point a
\* second time in the same direction, not being back at startI, goes on
\* for ever.
RECURSIVE trace1From(_, _, _, _, _, _, _)
trace1From(cs, startI, i, dir, xys, traced, seen) ==
    IF xys # <<>> /\ i = startI
    THEN [status |-> "returned", xys |-> xys, traced |-> traced]
    ELSE IF ~InRange(cs, i)
    THEN [status |-> "index out of range", xys |-> xys, traced |-> traced]
    ELSE IF <<i, dir>> \in seen
    THEN [status |-> "no return", xys |-> xys, traced |-> traced]
    ELSE LET next == IF dir = 1 THEN NextRight(cs, i) ELSE NextLeft(cs, i)
             now  == IF dir = 1 THEN traced \cup {i} ELSE traced
         IN  IF next.panic # ""
             THEN [status |-> next.panic, xys |-> xys, traced |-> now]
             ELSE trace1From(cs, startI, next.i, next.dir, Append(xys, At(cs, i).xy),
                             now, seen \cup {<<i, dir>>})

trace1(cs, startI, traced) == trace1From(cs, startI, startI, 1, <<>>, traced, {})

\* addEdge: the path joins the poly of its state, made if there is none.
addEdge(polys, xys, s) ==
    IF \E k \in 1..Len(polys) : polys[k].s = s
    THEN [k \in 1..Len(polys) |->
             IF polys[k].s = s THEN [polys[k] EXCEPT !.xys = Append(@, xys)] ELSE polys[k]]
    ELSE Append(polys, [s |-> s, xys |-> <<xys>>])

\* One iteration of the loop that starts a trace at each untraced point.
StartTrace(st, cs, i) ==
    IF st.status # "returned" \/ i \in st.traced \/ At(cs, i).before = 0 THEN st
    ELSE LET tr == trace1(cs, i, st.traced)
         IN  [status |-> tr.status, traced |-> tr.traced,
              polys  |-> IF tr.status = "returned"
                         THEN addEdge(st.polys, tr.xys, At(cs, i).before)
                         ELSE st.polys]

makePolys(cs) ==
    LET after[n \in 0..Len(cs)] ==
            IF n = 0 THEN [status |-> "returned", traced |-> {}, polys |-> <<>>]
            ELSE StartTrace(after[n - 1], cs, n - 1)
    IN  after[Len(cs)]

\* plotChangesUsingPolys up to the polygons it hands to the plot.
plotChangesUsingPolys(ts, states) ==
    LET changes == findChanges(ts, states)
        made    == makePolys(makeVisualChanges(changes))
    IN  [changes |-> changes, status |-> made.status, polys |-> made.polys]

(***************************************************************************)
(* encoding/gob, as the cache uses it on a []SunLight.  A stream is a      *)
(* sequence of tokens [tag, a, b]: the type of the value, then the message *)
(* of the value: the count of the tokens that follow, the length of the    *)
(* slice and, for each struct, its fields in order, each preceded by the   *)
(* distance from the field sent before it, and a zero distance at the end. *)
(* Fields are numbered from 0 and a field holding the zero value of its    *)
(* type is not sent.  Embedded structs are always sent.  The decoder reads *)
(* a message whole before it decodes it, and leaves what follows the       *)
(* value.                                                                  *)
(***************************************************************************)
Tok(tag, a, b) == [tag |-> tag, a |-> a, b |-> b]

SunLightSlice == "[]SunLight"

\* The zero values the decoder starts from; the zero time.Time is before
\* every instant of the model.
ZeroSunPos == [T |-> -1, Altitude |-> 0, Azimuth |-> 0]

ZeroSunLight == [SunPos |-> ZeroSunPos, Light |-> RZero, Foliage |-> FALSE]

\* A faulty variant that sends the field's number for its distance.
FieldDeltaAbsolute(num, prev) == num + 1

\* The distance the encoder sends before field num, prev being the field
\* sent before it (-1 at the start of a struct).
FieldDelta(num, prev) == num - prev

\* The fields of a struct, fields[k] = [omit, toks] being field k - 1.
RECURSIVE EncodeFields(_, _, _)
EncodeFields(fields, k, prev) ==
    IF k > Len(fields) THEN <<Tok("field", 0, 0)>>
    ELSE IF fields[k].omit THEN EncodeFields(fields, k + 1, prev)
    ELSE <<Tok("field", FieldDelta(k - 1, prev), 0)>> \o fields[k].toks
             \o EncodeFields(fields, k + 1, k - 1)

EncodeSunPos(p) ==
    EncodeFields(<<[omit |-> FALSE, toks |-> <<Tok("time", p.T, 0)>>],
                   [omit |-> p.Altitude = 0, toks |-> <<Tok("float", p.Altitude, 1)>>],
                   [omit |-> p.Azimuth = 0, toks |-> <<Tok("float", p.Azimuth, 1)>>]>>,
                 1, -1)

EncodeSunLight(sl) ==
    EncodeFields(<<[omit |-> FALSE, toks |-> EncodeSunPos(sl.SunPos)],
                   [omit |-> sl.Light.n = 0, toks |-> <<Tok("float", sl.Light.n, sl.Light.d)>>],
                   [omit |-> ~sl.Foliage, toks |-> <<Tok("bool", 1, 0)>>]>>,
                 1, -1)

RECURSIVE EncodeElems(_, _)
EncodeElems(val, i) ==
    IF i > Len(val) THEN <<>>
    ELSE EncodeSunLight(val[i]) \o EncodeElems(val, i + 1)

\* enc.Encode(val) for a []SunLight: the stream written.
gobEncode(val) ==
    LET elems == EncodeElems(val, 1)
    IN  <<Tok(SunLightSlice, 0, 0), Tok("message", 1 + Len(elems), 0),
          Tok("len", Len(val), 0)>> \o elems

\* What a decoding step returns: where the stream goes on, and the value.
DecodeFail == [ok |-> FALSE, pos |-> 0]

HasTok(s, pos, tag) == pos <= Len(s) /\ s[pos].tag = tag

\* The fields of a struct of the given kind, from pos on, into val.
RECURSIVE DecodeStruct(_, _, _, _, _)
DecodeStruct(s, pos, fieldnum, val, kind) ==
    IF ~HasTok(s, pos, "field") THEN DecodeFail
    ELSE IF s[pos].a = 0 THEN [ok |-> TRUE, pos |-> pos + 1, val |-> val]
    ELSE LET f == fieldnum + s[pos].a
         IN  IF f < 0 \/ f > 2 THEN DecodeFail
             ELSE IF kind = "SunLight" /\ f = 0
             THEN LET r == DecodeStruct(s, pos + 1, -1, ZeroSunPos, "SunPos")
                  IN  IF ~r.ok THEN DecodeFail
                      ELSE DecodeStruct(s, r.pos, f, [val EXCEPT !.SunPos = r.val], kind)
             ELSE IF kind = "SunLight" /\ f = 1
             THEN IF ~HasTok(s, pos + 1, "float") THEN DecodeFail
                  ELSE DecodeStruct(s, pos + 2, f,
                           [val EXCEPT !.Light = [n |-> s[pos + 1].a, d |-> s[pos + 1].b]],
                           kind)
             ELSE IF kind = "SunLight"
             THEN IF ~HasTok(s, pos + 1, "bool") THEN DecodeFail
                  ELSE DecodeStruct(s, pos + 2, f,
                           [val EXCEPT !.Foliage = (s[pos + 1].a = 1)], kind)
             ELSE IF f = 0
             THEN IF ~HasTok(s, pos + 1, "time") THEN DecodeFail
                  ELSE DecodeStruct(s, pos + 2, f, [val EXCEPT !.T = s[pos + 1].a], kind)
             ELSE IF ~HasTok(s, pos + 1, "float") THEN DecodeFail
             ELSE IF f = 1
             THEN DecodeStruct(s, pos + 2, f, [val EXCEPT !.Altitude = s[pos + 1].a], kind)
             ELSE DecodeStruct(s, pos + 2, f, [val EXCEPT !.Azimuth = s[pos + 1].a], kind)

\* The n elements of the slice, from pos on, appended to out.
RECURSIVE DecodeElems(_, _, _, _)
DecodeElems(s, pos, n, out) ==
    IF n = 0 THEN [ok |-> TRUE, pos |-> pos, val |-> out]
    ELSE LET r == DecodeStruct(s, pos, -1, ZeroSunLight, "SunLight")
         IN  IF ~r.ok THEN DecodeFail
             ELSE DecodeElems(s, r.pos, n - 1, Append(out, r.val))

\* dec.Decode(out) for out a pointer to a nil []SunLight: a stream of
\* another type, and a stream that ends early, are errors.
gobDecode(s) ==
    IF ~HasTok(s, 1, SunLightSlice) \/ ~HasTok(s, 2, "message")
    THEN [err |-> TRUE, out |-> <<>>]
    ELSE IF Len(s) < 2 + s[2].a
    THEN [err |-> TRUE, out |-> <<>>]
    ELSE LET message == SubSeq(s, 3, 2 + s[2].a)
         IN  IF ~HasTok(message, 1, "len") THEN [err |-> TRUE, out |-> <<>>]
             ELSE LET r == DecodeElems(message, 2, message[1].a, <<>>)
                  IN  IF r.ok THEN [err |-> FALSE, out |-> r.val]
                      ELSE [err |-> TRUE, out |-> <<>>]

(***************************************************************************)
(* The cache.  The store is the .cache directory: whether it exists, and   *)
(* its files by key, each the stream it holds and whether it can be        *)
(* opened.                                                                 *)
(***************************************************************************)
EmptyCache == [dir |-> FALSE, files |-> <<>>]

\* The arguments of MakeCacheKey as gob sends them.  A slice is its length
\* and its elements, an array likewise; a *Mesh is sent as the Mesh it
\* points to, a struct whose empty slices are not sent.
EncodeFloats(vs) ==
    [i \in 1..(3 * Len(vs)) |-> Tok("float", vs[1 + ((i - 1) \div 3)][1 + ((i - 1) % 3)], 1)]

EncodeInts(vs) ==
    [i \in 1..(3 * Len(vs)) |-> Tok("int", vs[1 + ((i - 1) \div 3)][1 + ((i - 1) % 3)], 0)]

EncodeMesh(mesh) ==
    EncodeFields(<<[omit |-> Len(mesh.Verts) = 0,
                    toks |-> <<Tok("len", Len(mesh.Verts), 0)>> \o EncodeFloats(mesh.Verts)],
                   [omit |-> Len(mesh.Tris) = 0,
                    toks |-> <<Tok("len", Len(mesh.Tris), 0)>> \o EncodeInts(mesh.Tris)]>>,
                 1, -1)

\* The stream of the mesh behind each pointer, computed once.
MeshStreams == [p \in Paths |-> EncodeMesh(MeshAt(p))]

RECURSIVE EncodeMeshes(_, _)
EncodeMeshes(meshes, k) ==
    IF k > Len(meshes) THEN <<>>
    ELSE MeshStreams[meshes[k]] \o EncodeMeshes(meshes, k + 1)

EncodeTimes(ts) == [i \in 1..Len(ts) |-> Tok("time", ts[i], 0)]

\* A faulty variant that leaves the test point out of the key.
MakeCacheKeyNoTestPos(meshes, latitude, longitude, pos, ts) ==
    <<Tok("[]*Mesh", 0, 0), Tok("len", Len(meshes), 0)>> \o EncodeMeshes(meshes, 1)
    \o <<Tok("float64", 0, 0), Tok("float", latitude, 1)>>
    \o <<Tok("float64", 0, 0), Tok("float", longitude, 1)>>
    \o <<Tok("[]time.Time", 0, 0), Tok("len", Len(ts), 0)>> \o EncodeTimes(ts)

\* MakeCacheKey(meshes, m.lat, m.lon, testPos, times): every argument is
\* encoded in turn, its type first, into the hash.  The key is the stream
\* hashed: the model takes SHA-256 to be free of collisions and keeps the
\* stream.
MakeCacheKey(meshes, latitude, longitude, pos, ts) ==
    <<Tok("[]*Mesh", 0, 0), Tok("len", Len(meshes), 0)>> \o EncodeMeshes(meshes, 1)
    \o <<Tok("float64", 0, 0), Tok("float", latitude, 1)>>
    \o <<Tok("float64", 0, 0), Tok("float", longitude, 1)>>
    \o <<Tok("[3]float64", 0, 0), Tok("len", 3, 0)>> \o EncodeFloats(<<pos>>)
    \o <<Tok("[]time.Time", 0, 0), Tok("len", Len(ts), 0)>> \o EncodeTimes(ts)

\* ck.Load(&sunPos), sunPos being nil.
Load(store, ck) ==
    IF ck \notin DOMAIN store.files THEN [ok |-> FALSE, out |-> <<>>]
    ELSE IF ~store.files[ck].readable THEN [ok |-> FALSE, out |-> <<>>]
    ELSE LET d == gobDecode(store.files[ck].data)
         IN  IF d.err THEN [ok |-> FALSE, out |-> <<>>]
             ELSE [ok |-> TRUE, out |-> d.out]

\* The faults a call of Save can meet: MkdirAll fails, Create fails, the
\* write of the stream fails.
SaveFaults == {"none", "mkdir", "create", "write"}

WithFile(store, ck, data) ==
    [dir   |-> TRUE,
     files |-> [k \in DOMAIN store.files \cup {ck} |->
                   IF k = ck THEN [data |-> data, readable |-> TRUE]
                   ELSE store.files[k]]]

\* ck.Save(val), stream being the gob stream of val: the store it leaves,
\* what it logs, and whether it panics.  A failed write leaves `halves`
\* halves of the stream in the file.
SaveStream(store, ck, stream, fault, halves) ==
    IF fault = "mkdir"
    THEN [store |-> store, log |-> "error creating .cache", panic |-> FALSE]
    ELSE IF fault = "create"
    THEN [store |-> [store EXCEPT !.dir = TRUE],
          log |-> "error saving to cache", panic |-> FALSE]
    ELSE IF fault = "write"
    THEN [store |-> WithFile(store, ck, SubSeq(stream, 1, (halves * Len(stream)) \div 2)),
          log |-> "", panic |-> TRUE]
    ELSE [store |-> WithFile(store, ck, stream), log |-> "", panic |-> FALSE]

Save(store, ck, val, fault, halves) == SaveStream(store, ck, gobEncode(val), fault, halves)


(***************************************************************************)
(* The state.                                                              *)
(***************************************************************************)
VARIABLES
    m,          \* the ShadeModel: [lat, lon, elevationFeet, layers]
    err,        \* what the last AddBuildings/AddFoliage returned
    testPos,    \* the test point handed to computeSunLight
    times,      \* the timestamps handed to computeSunLight
    sunLight,   \* what computeSunLight returned for the model as it stands
    cache,      \* the .cache directory
    ret,        \* how the last call of IntensityOverYear on the model ended
    arg,        \* the arguments drawn for a function that is applied alone
    out         \* what the function returned for them

vars == <<m, err, testPos, times, sunLight, cache, ret, arg, out>>

\* No function is applied alone.
NoArg == [fn |-> "none"]

\* The function has not been applied yet.
NoOut == [done |-> FALSE]

\* The instants of the first year.
Timestamps == 0..(TicksPerYear - 1)

SeqsUpTo(S, n) == UNION {[1..k -> S] : k \in 0..n}

NotComputed == [done |-> FALSE, light |-> <<>>, tests |-> <<>>]

Computed(res) == [done |-> TRUE, light |-> res.light, tests |-> res.tests]

\* No call of IntensityOverYear has been made on the model.
NoReturn ==
    [status |-> "none", sunPos |-> <<>>, elevationFeet |-> 0, increment |-> 0,
     found |-> FALSE, fault |-> "none", log |-> ""]

NewModel(latitude, longitude, elevationFeet) ==
    [lat |-> latitude, lon |-> longitude, elevationFeet |-> elevationFeet,
     layers |-> <<>>]

(***************************************************************************)
(* model.go: building the model.                                           *)
(***************************************************************************)
\* A program that panicked has ended; NewShadeModel is where the next run
\* of the program starts.
NewShadeModel(latitude, longitude, elevationFeet) ==
    /\ m' = NewModel(latitude, longitude, elevationFeet)
    /\ err' = "none"
    /\ sunLight' = NotComputed
    /\ ret' = NoReturn
    /\ UNCHANGED <<testPos, times, cache, arg, out>>

\* A faulty variant that goes on after ReadSTL has failed and appends the
\* layer all the same.
addLayerResultKeepsBadMesh(layers, stlPath, trans, foliage) ==
    LET f == OpenAndRead[stlPath]
        r == f.read
    IN  IF ~f.exists THEN [err |-> "open", layers |-> layers]
        ELSE [err    |-> IF r.err THEN "read" ELSE "nil",
              layers |-> Append(layers, [mesh |-> stlPath, trans |-> trans,
                                         foliage |-> foliage])]

\* What addLayer returns and the layer list it leaves.
addLayerResult(layers, stlPath, trans, foliage) ==
    LET f == OpenAndRead[stlPath]
        r == f.read
    IN  IF ~f.exists THEN [err |-> "open", layers |-> layers]
        ELSE IF r.err THEN [err |-> "read", layers |-> layers]
        ELSE [err    |-> "nil",
              layers |-> Append(layers, [mesh |-> stlPath, trans |-> trans,
                                         foliage |-> foliage])]

addLayer(stlPath, trans, foliage) ==
    /\ ret.status # "panic"
    /\ Len(m.layers) < MaxLayers
    /\ LET res == addLayerResult(m.layers, stlPath, trans, foliage)
       IN  /\ m' = [m EXCEPT !.layers = res.layers]
           /\ err' = res.err
    /\ sunLight' = NotComputed
    /\ ret' = NoReturn
    /\ UNCHANGED <<testPos, times, cache, arg, out>>

AddBuildings(stlPath) == addLayer(stlPath, "buildings", FALSE)

AddFoliage(stlPath) == addLayer(stlPath, "foliage", TRUE)

(***************************************************************************)
(* sun.go: a call of computeSunLight on the inputs drawn at the start.     *)
(***************************************************************************)
ComputeSunLight ==
    /\ ~sunLight.done
    /\ sunLight' = Computed(computeSunLight(m, testPos, times))
    /\ UNCHANGED <<m, err, testPos, times, cache, ret, arg, out>>

(***************************************************************************)
(* model.go: IntensityOverYear.  Its call of Save meets one of the faults.  *)
(***************************************************************************)
Years == {BaseYear, BaseYear + 1}

\* time.Date(year, 1, 1, 0, 0, 0, 0, time.Local)
Date(year) == (year - BaseYear) * TicksPerYear

\* A faulty variant of the loop that looks at the year after appending.
RECURSIVE TimesFromThroughNewYear(_, _)
TimesFromThroughNewYear(t, year) ==
    IF Year(t) = year THEN <<t>> \o TimesFromThroughNewYear(t + Minute, year) ELSE <<t>>

\* The loop that fills times.
RECURSIVE TimesFrom(_, _)
TimesFrom(t, year) ==
    IF Year(t) = year THEN <<t>> \o TimesFrom(t + Minute, year) ELSE <<>>

\* The key IntensityOverYear makes for a model, a test point and times.
KeyOf(model, pos, ts) ==
    MakeCacheKey([k \in 1..Len(model.layers) |-> model.layers[k].mesh],
                 model.lat, model.lon, pos, ts)

\* The end of IntensityOverYear after a miss: sv is what Save did.
ReturnComputed(light, sv, fault) ==
    /\ cache' = sv.store
    /\ ret' = IF sv.panic
              THEN [NoReturn EXCEPT !.status = "panic", !.fault = fault]
              ELSE [status |-> "returned", sunPos |-> light,
                    elevationFeet |-> m.elevationFeet, increment |-> Minute,
                    found |-> FALSE, fault |-> fault, log |-> sv.log]

\* IntensityOverYear after a miss: res is what computeSunLight returned.
SaveComputed(ck, res) ==
    /\ sunLight' = Computed(res)
    /\ \E fault \in SaveFaults, halves \in 0..1 :
          /\ fault = "mkdir" => ~cache.dir
          /\ fault # "write" => halves = 0
          /\ ReturnComputed(res.light, Save(cache, ck, res.light, fault, halves), fault)

\* A faulty variant that computes and saves without looking at what Load
\* returned.
LoadOrComputeNoLoad(pos, ts, ck, ld) ==
    /\ ck \in DOMAIN cache.files \/ Cardinality(DOMAIN cache.files) < MaxEntries
    /\ SaveComputed(ck, computeSunLight(m, pos, ts))

\* IntensityOverYear from Load on: ld is what Load returned.
LoadOrCompute(pos, ts, ck, ld) ==
    /\ ck \in DOMAIN cache.files \/ Cardinality(DOMAIN cache.files) < MaxEntries
    /\ IF ld.ok
       THEN /\ ret' = [status |-> "returned", sunPos |-> ld.out,
                       elevationFeet |-> m.elevationFeet, increment |-> Minute,
                       found |-> TRUE, fault |-> "none", log |-> ""]
            /\ sunLight' = NotComputed
            /\ UNCHANGED cache
       ELSE SaveComputed(ck, computeSunLight(m, pos, ts))

\* IntensityOverYear from the key on.
WithKey(pos, ts, ck) == LoadOrCompute(pos, ts, ck, Load(cache, ck))

\* IntensityOverYear from times on.
WithTimes(pos, ts) ==
    /\ testPos' = pos
    /\ times' = ts
    /\ WithKey(pos, ts, KeyOf(m, pos, ts))

IntensityOverYear(year, pos) ==
    /\ ret.status # "panic"
    /\ WithTimes(pos, TimesFrom(Date(year), year))
    /\ UNCHANGED <<m, err, arg, out>>

(***************************************************************************)
(* What happens to the files of the store behind the program's back.       *)
(***************************************************************************)
\* The file is cut to its first half.
Truncate(ck) ==
    /\ ck \in DOMAIN cache.files
    /\ LET data == cache.files[ck].data
       IN  /\ Len(data) > 1
           /\ cache' = [cache EXCEPT !.files[ck].data = SubSeq(data, 1, Len(data) \div 2)]
    /\ UNCHANGED <<m, err, testPos, times, sunLight, ret, arg, out>>

\* The file is replaced by a stream of another type.
Corrupt(ck) ==
    /\ ck \in DOMAIN cache.files
    /\ cache.files[ck].data # <<Tok("[]bool", 0, 0), Tok("len", 0, 0)>>
    /\ cache' = [cache EXCEPT !.files[ck].data = <<Tok("[]bool", 0, 0), Tok("len", 0, 0)>>]
    /\ UNCHANGED <<m, err, testPos, times, sunLight, ret, arg, out>>

\* The file loses its read permission.
MakeUnreadable(ck) ==
    /\ ck \in DOMAIN cache.files
    /\ cache.files[ck].readable
    /\ cache' = [cache EXCEPT !.files[ck].readable = FALSE]
    /\ UNCHANGED <<m, err, testPos, times, sunLight, ret, arg, out>>

\* The file is removed.
Remove(ck) ==
    /\ ck \in DOMAIN cache.files
    /\ cache' = [cache EXCEPT !.files = [k \in DOMAIN cache.files \ {ck} |-> cache.files[k]]]
    /\ UNCHANGED <<m, err, testPos, times, sunLight, ret, arg, out>>

\* The program's runs on one store: models are built, IntensityOverYear is
\* called on them, and the store's files change between the calls.
Init ==
    /\ m = NewModel(42, -71, 200)
    /\ err = "none"
    /\ testPos = <<0, 0, 0>>
    /\ times = <<>>
    /\ sunLight = NotComputed
    /\ cache = EmptyCache
    /\ ret = NoReturn
    /\ arg = NoArg
    /\ out = NoOut

Next ==
    \/ \E la \in Lats, lo \in Lons, el \in Elevations : NewShadeModel(la, lo, el)
    \/ \E p \in Paths : AddBuildings(p)
    \/ \E p \in Paths : AddFoliage(p)
    \/ \E y \in Years, pos \in TestPositions : IntensityOverYear(y, pos)
    \/ \E ck \in DOMAIN cache.files : Truncate(ck)
    \/ \E ck \in DOMAIN cache.files : Corrupt(ck)
    \/ \E ck \in DOMAIN cache.files : MakeUnreadable(ck)
    \/ \E ck \in DOMAIN cache.files : Remove(ck)

Spec == Init /\ [][Next]_vars

\* main: the layers are added to the model NewShadeModel made, then the
\* queries are made; a call that fails does not stop the next.
NextSetup ==
    \/ \E p \in Paths : ret.status = "none" /\ AddBuildings(p)
    \/ \E p \in Paths : ret.status = "none" /\ AddFoliage(p)
    \/ \E pos \in TestPositions : IntensityOverYear(BaseYear, pos)

SpecSetup == Init /\ [][NextSetup]_vars

\* The calls that add a layer, as the arguments they hand to addLayer.
AddCalls ==
    {[stlPath |-> p, trans |-> "buildings", foliage |-> FALSE] : p \in Paths}
    \cup {[stlPath |-> p, trans |-> "foliage", foliage |-> TRUE] : p \in Paths}

\* The layer list a sequence of AddBuildings/AddFoliage calls leaves.
RECURSIVE LayersBuilt(_)
LayersBuilt(calls) ==
    IF calls = <<>> THEN <<>>
    ELSE LET c == calls[Len(calls)]
         IN  addLayerResult(LayersBuilt(SubSeq(calls, 1, Len(calls) - 1)),
                            c.stlPath, c.trans, c.foliage).layers

\* The models that NewShadeModel and up to MaxLayers calls of AddBuildings
\* and AddFoliage build.
BuiltModels ==
    {[NewModel(la, lo, el) EXCEPT !.layers = LayersBuilt(calls)] :
        la \in Lats, lo \in Lons, el \in Elevations,
        calls \in SeqsUpTo(AddCalls, MaxLayers)}

\* computeSunLight is a function of the model, the test point and the
\* timestamps: the specification draws the three and applies it.
InitCompute ==
    /\ m \in BuiltModels
    /\ err = "none"
    /\ sunLight = NotComputed
    /\ testPos \in TestPositions
    /\ times \in SeqsUpTo(Timestamps, MaxTimes)
    /\ cache = EmptyCache
    /\ ret = NoReturn
    /\ arg = NoArg
    /\ out = NoOut

NextCompute == ComputeSunLight

SpecCompute == InitCompute /\ [][NextCompute]_vars

\* The POV-Ray backend: the geometric computeSunLight is called, then
\* either revision of the POV-Ray backend on the same inputs, its result
\* left in out.  The models are those built from the house and the trees,
\* each as buildings or as foliage.
POVModels == {model \in BuiltModels :
                 \A k \in 1..Len(model.layers) :
                    model.layers[k].mesh \in {"house.stl", "house-trees.stl"}}

InitPOV ==
    /\ m \in POVModels
    /\ err = "none"
    /\ sunLight = NotComputed
    /\ testPos \in TestPositions
    /\ times \in SeqsUpTo(Timestamps, MaxTimes)
    /\ cache = EmptyCache
    /\ ret = NoReturn
    /\ arg = NoArg
    /\ out = NoOut

POVComputeSunLight(damage) ==
    /\ sunLight.done /\ ~out.done
    /\ out' = [done |-> TRUE, fn |-> "computeSunLight",
               val |-> povComputeSunLight(m, testPos, times, damage)]
    /\ UNCHANGED <<m, err, testPos, times, sunLight, cache, ret, arg>>

ComputeSunPos(damage) ==
    /\ sunLight.done /\ ~out.done
    /\ out' = [done |-> TRUE, fn |-> "computeSunPos",
               val |-> computeSunPos(m, testPos, times, damage)]
    /\ UNCHANGED <<m, err, testPos, times, sunLight, cache, ret, arg>>

NextPOV ==
    \/ ComputeSunLight
    \/ \E damage \in Damages : POVComputeSunLight(damage)
    \/ \E damage \in Damages : ComputeSunPos(damage)

SpecPOV == InitPOV /\ [][NextPOV]_vars

\* Save and Load on the values the program hands them: the specification
\* draws a model and calls IntensityOverYear on it, on a store that starts
\* empty; after a panic the program starts again, with a model that has no
\* layers, on the store as the panic left it.
InitCache ==
    /\ m \in BuiltModels
    /\ err = "none"
    /\ testPos = <<0, 0, 0>>
    /\ times = <<>>
    /\ sunLight = NotComputed
    /\ cache = EmptyCache
    /\ ret = NoReturn
    /\ arg = NoArg
    /\ out = NoOut

NextCache ==
    \/ \E y \in Years, pos \in TestPositions : IntensityOverYear(y, pos)
    \/ \E la \in Lats, lo \in Lons, el \in Elevations : NewShadeModel(la, lo, el)

SpecCache == InitCache /\ [][NextCache]_vars

(***************************************************************************)
(* Two processes on one key.  Each runs the cycle of IntensityOverYear     *)
(* once: Load, and after a miss computeSunLight and Save.  Load and Save   *)
(* are broken into their system calls: the open, the reads the decoder     *)
(* makes as it goes, the create that truncates, and the writes.  Both      *)
(* models have the same meshes, and so the same key; out holds where each  *)
(* process is.                                                             *)
(***************************************************************************)
\* The tokens one read or one write moves.
PageLen == 6

RacePaths == <<"house.stl", "house-trees.stl">>

\* The models whose layers are the meshes of RacePaths, each as buildings
\* or as foliage.
RaceModels ==
    {model \in BuiltModels :
        /\ Len(model.layers) = Len(RacePaths)
        /\ \A k \in 1..Len(RacePaths) : model.layers[k].mesh = RacePaths[k]}

\* What the store holds for the key at the start: nothing, or the first
\* half of an entry, as a Save whose write failed leaves it.
RaceArgs ==
    [fn : {"race"}, models : RaceModels \X RaceModels, year : Years,
     left : {<<>>} \cup {<<model>> : model \in RaceModels}]

RaceTimes(a) == TimesFrom(Date(a.year), a.year)

RaceKey(a) == KeyOf(a.models[1], <<0, 0, 0>>, RaceTimes(a))

\* What process p computes and saves.
RaceValue(a, p) == computeSunLight(a.models[p], <<0, 0, 0>>, RaceTimes(a)).light

Process(pc) == [pc |-> pc, off |-> 0, buf |-> <<>>, found |-> FALSE, val |-> <<>>]

InitRace ==
    /\ arg \in RaceArgs
    /\ m = arg.models[1]
    /\ err = "none"
    /\ testPos = <<0, 0, 0>>
    /\ times = RaceTimes(arg)
    /\ sunLight = NotComputed
    /\ cache = IF arg.left = <<>> THEN EmptyCache
               ELSE LET v == computeSunLight(arg.left[1], testPos, times).light
                    IN  Save(EmptyCache, RaceKey(arg), v, "write", 1).store
    /\ ret = NoReturn
    /\ out = [done |-> FALSE, proc |-> <<Process("Load"), Process("Load")>>]

Step(p, to) ==
    /\ out' = [out EXCEPT !.proc[p] = to]
    /\ UNCHANGED <<m, err, testPos, times, sunLight, ret, arg>>

\* os.Open in Load: a file that is not there, or cannot be opened, is a
\* miss.
LoadOpen(p) ==
    LET ck == RaceKey(arg)
    IN  /\ out.proc[p].pc = "Load"
        /\ Step(p, IF ck \in DOMAIN cache.files /\ cache.files[ck].readable
                   THEN Process("Decode") ELSE Process("computeSunLight"))
        /\ UNCHANGED cache

\* A decoder that takes the end of the file for the end of the value: the
\* elements that are whole, when the file has no more to give.
DecodedShortSlice(buf, more) ==
    IF more \/ ~gobDecode(buf).err \/ ~HasTok(buf, 3, "len") THEN gobDecode(buf)
    ELSE LET whole == {n \in 0..buf[3].a : DecodeElems(buf, 4, n, <<>>).ok}
             most  == CHOOSE n \in whole : \A k \in whole : k <= n
         IN  [err |-> FALSE, out |-> DecodeElems(buf, 4, most, <<>>).val]

\* What the decoder makes of the tokens read so far, more telling whether
\* the file had any left to give.
Decoded(buf, more) == gobDecode(buf)

\* One read of dec.Decode in Load: the next page of the file as it is now.
\* The end of the file before the value is whole is an error, and a miss.
LoadRead(p) ==
    LET ck   == RaceKey(arg)
        data == cache.files[ck].data
        me   == out.proc[p]
        to   == IF me.off + PageLen < Len(data) THEN me.off + PageLen ELSE Len(data)
        buf  == me.buf \o SubSeq(data, me.off + 1, to)
        d    == Decoded(buf, to > me.off)
    IN  /\ me.pc = "Decode"
        /\ Step(p, IF ~d.err
                   THEN [pc |-> "returned", off |-> to, buf |-> buf,
                         found |-> TRUE, val |-> d.out]
                   ELSE IF to > me.off
                   THEN [me EXCEPT !.off = to, !.buf = buf]
                   ELSE Process("computeSunLight"))
        /\ UNCHANGED cache

\* sunPos = m.computeSunLight(testPos, times), after a miss.
Compute(p) ==
    /\ out.proc[p].pc = "computeSunLight"
    /\ Step(p, [Process("Save") EXCEPT !.val = RaceValue(arg, p)])
    /\ UNCHANGED cache

\* os.MkdirAll and os.Create in Save: the file is there and empty.
SaveCreate(p) ==
    /\ out.proc[p].pc = "Save"
    /\ cache' = WithFile(cache, RaceKey(arg), <<>>)
    /\ Step(p, [out.proc[p] EXCEPT !.pc = "Encode"])

\* The file after a write of piece at offset off: a write past the end
\* leaves zeros between the end and the piece.
WriteAt(data, off, piece) ==
    [j \in 1..(IF Len(data) > off + Len(piece) THEN Len(data) ELSE off + Len(piece)) |->
        IF j > off /\ j <= off + Len(piece) THEN piece[j - off]
        ELSE IF j <= Len(data) THEN data[j]
        ELSE Tok("zero", 0, 0)]

\* One write of enc.Encode in Save, at the offset of the process's own
\* file: the type first, then the value page by page.
SaveWrite(p) ==
    LET ck     == RaceKey(arg)
        me     == out.proc[p]
        stream == gobEncode(me.val)
        to     == IF me.off = 0 THEN 1
                  ELSE IF me.off + PageLen < Len(stream) THEN me.off + PageLen
                  ELSE Len(stream)
    IN  /\ me.pc = "Encode"
        /\ ck \in DOMAIN cache.files
        /\ cache' = [cache EXCEPT !.files[ck].data =
                         WriteAt(@, me.off, SubSeq(stream, me.off + 1, to))]
        /\ Step(p, [me EXCEPT !.off = to,
                              !.pc = IF to = Len(stream) THEN "returned" ELSE "Encode"])

NextRace ==
    \E p \in 1..2 :
        \/ LoadOpen(p)
        \/ LoadRead(p)
        \/ Compute(p)
        \/ SaveCreate(p)
        \/ SaveWrite(p)

SpecRace == InitRace /\ [][NextRace]_vars

(***************************************************************************)
(* A function applied alone: the specification draws its arguments into    *)
(* arg and one step applies it, leaving what it returned in out.           *)
(***************************************************************************)
Alone(args) ==
    /\ m = NewModel(42, -71, 200)
    /\ err = "none"
    /\ testPos = <<0, 0, 0>>
    /\ times = <<>>
    /\ sunLight = NotComputed
    /\ cache = EmptyCache
    /\ ret = NoReturn
    /\ arg \in args
    /\ out = NoOut

Return(val) ==
    /\ ~out.done
    /\ out' = [done |-> TRUE, val |-> val]
    /\ UNCHANGED <<m, err, testPos, times, sunLight, cache, ret, arg>>

\* The ranges of an axis, in minutes, and the numbers of ticks asked for.
TickDurations == {-10, -9, -1, 0, 1, 4, 8, 9, 10, 29, 30, 59, 60, 90, 180, 719, 720, 1440}

TickArgs ==
    {a \in [kind : {"timeOfDayTicks", "durationTicks"}, targetTicks : {1, 6, 12},
            minD : TickDurations, maxD : TickDurations] : a.minD <= a.maxD}

InitTicks == Alone(TickArgs)

NextTicks == Return(Ticks(arg.kind, arg.targetTicks, arg.minD, arg.maxD))

SpecTicks == InitTicks /\ [][NextTicks]_vars

\* plotChangesUsingPolys on the samples of up to three days, taken at any of
\* the day's three instants, each sample in one of three states.
PlotInstants == {[day |-> d, tod |-> h * Hour] : d \in 0..2, h \in {0, 12, 18}}

Before(a, b) == a.day < b.day \/ (a.day = b.day /\ a.tod < b.tod)

RECURSIVE InOrder(_)
InOrder(S) ==
    IF S = {} THEN <<>>
    ELSE LET first == CHOOSE a \in S : \A b \in S \ {a} : Before(a, b)
         IN  <<first>> \o InOrder(S \ {first})

PlotStates == 0..2

MaxSamples == 5

PlotArgs ==
    UNION {[ts : {InOrder(S)}, states : [1..Cardinality(S) -> PlotStates]] :
              S \in {T \in SUBSET PlotInstants : Cardinality(T) <= MaxSamples}}

InitPlot == Alone(PlotArgs)

NextPlot == Return(plotChangesUsingPolys(arg.ts, arg.states))

SpecPlot == InitPlot /\ [][NextPlot]_vars

\* MakeCacheKey on the arguments IntensityOverYear hands it: up to
\* MaxLayers mesh pointers, two of which point to equal meshes, a
\* latitude and a longitude that may be zero, a test point and times.
KeyMeshes == {"house.stl", "house-copy.stl", "house-trees.stl"}

KeyTimes == {0, 1}

KeyArgs ==
    [meshes : SeqsUpTo(KeyMeshes, MaxLayers), lat : {0, 42}, lon : {0, 42},
     pos : TestPositions, ts : SeqsUpTo(KeyTimes, MaxTimes)]

KeyFor(a) == MakeCacheKey(a.meshes, a.lat, a.lon, a.pos, a.ts)

InitKey == Alone(KeyArgs)

NextKey == Return(KeyFor(arg))

SpecKey == InitKey /\ [][NextKey]_vars

\* The foliage transmissivity on every day of a year, leap years included.
YearDays == 1..366

InitFoliage == Alone([day : YearDays])

NextFoliage == Return(transOfDay(arg.day))

SpecFoliage == InitFoliage /\ [][NextFoliage]_vars

\* GlobalIntensity on samples with the sun below, at and above the
\* horizon, in full light and in shade, at three elevations.
Altitudes == {-90, -45, -1, 0, 1, 45, 90}

Lights == {RZero, Rat(1, 20), Rat(1, 2), ROne}

IntensityElevations == {0, 200, 1000}

InitIntensity ==
    Alone([p : {[SunPos  |-> [T |-> 0, Altitude |-> al, Azimuth |-> 180],
                 Light   |-> l,
                 Foliage |-> l \notin {RZero, ROne}] : al \in Altitudes, l \in Lights},
           elevationFeet : IntensityElevations])

NextIntensity == Return(GlobalIntensity(arg.p, arg.elevationFeet))

SpecIntensity == InitIntensity /\ [][NextIntensity]_vars

\* IntersectTriangle on rays along the six axes from the points of a small
\* lattice, against triangles in and across the planes of the lattice, in
\* both windings, one of them with its three points on a line, on a grid
\* of whole units and on a fine grid.
Grids == {1, 10000}

Axes == {<<1, 0, 0>>, <<-1, 0, 0>>, <<0, 1, 0>>, <<0, -1, 0>>, <<0, 0, 1>>, <<0, 0, -1>>}

Lattice == {<<x, y, z>> : x \in -1..2, y \in -1..2, z \in -1..2}

LatticeRays == [Origin : Lattice, Dir : Axes]

Flat == <<Vec(0, 0, 0), Vec(3, 0, 0), Vec(0, 3, 0)>>

Wide == <<Vec(0, 0, 0), Vec(6, 0, 0), Vec(0, 6, 0)>>

Upright == <<Vec(0, 0, 0), Vec(0, 3, 0), Vec(0, 0, 3)>>

Slanted == <<Vec(0, 0, 0), Vec(3, 0, 0), Vec(0, 3, 3)>>

Sliver == <<Vec(0, 0, 0), Vec(1, 1, 0), Vec(2, 2, 0)>>

\* The triangle with its winding reversed.
Reversed(tri) == <<tri[1], tri[3], tri[2]>>

Triangles ==
    {Flat, Wide, Upright, Slanted, Sliver}
    \cup {Reversed(Flat), Reversed(Wide), Reversed(Upright), Reversed(Slanted)}

InitTriangle == Alone([r : LatticeRays, tri : Triangles, grid : Grids])

NextTriangle == Return(IntersectTriangleOn(arg.r, arg.tri, arg.grid))

SpecTriangle == InitTriangle /\ [][NextTriangle]_vars

\* The mesh that holds the given triangles, each with vertices of its own.
MeshOf(tris) ==
    [Verts |-> [i \in 1..(3 * Len(tris)) |-> tris[1 + ((i - 1) \div 3)][1 + ((i - 1) % 3)]],
     Tris  |-> [k \in 1..Len(tris) |-> <<3 * k - 3, 3 * k - 2, 3 * k - 1>>]]

\* IntersectMesh on the rays of the lattice, against the meshes of the
\* model, a mesh with no triangle and meshes of the triangles above.
LatticeMeshes ==
    {EmptyMesh, MeshAt("house.stl"), MeshAt("house-trees.stl"),
     MeshOf(<<Flat, Upright>>), MeshOf(<<Upright, Slanted, Flat>>),
     MeshOf(<<Sliver>>), MeshOf(<<Wide, Sliver>>)}

InitMesh == Alone([r : LatticeRays, mesh : LatticeMeshes])

NextMesh == Return(IntersectMesh(arg.r, arg.mesh))

SpecMesh == InitMesh /\ [][NextMesh]_vars

\* ReadSTL on files of up to MaxSoup triangles, a fan: the last vertex of
\* every triangle is the vertex with a one, the first two are drawn from
\* four, which are the origin, the origin with a negative zero, a vertex
\* with a NaN and the vertex with a one.
MaxSoup == 2

NaNBits == Uint32(0, 255 * 2^23 + 2^22)

Apex == <<Float32bits(1), Float32bits(0), Float32bits(0)>>

SoupVertices ==
    {<<Float32bits(0), Float32bits(0), Float32bits(0)>>,
     <<Uint32(1, 0), Float32bits(0), Float32bits(0)>>,
     <<NaNBits, Float32bits(0), Float32bits(0)>>,
     Apex}

SoupFiles ==
    {[exists |-> TRUE, NTri |-> Len(ts), tris |-> ts] :
        ts \in SeqsUpTo({<<a, b, Apex>> : a, b \in SoupVertices}, MaxSoup)}

InitSTL == Alone([file : SoupFiles])

NextSTL == Return(ReadSTL(arg.file))

SpecSTL == InitSTL /\ [][NextSTL]_vars

(***************************************************************************)
(* Properties of computeSunLight.                                          *)
(***************************************************************************)
Samples == 1..Len(sunLight.light)

\* The intersection tests logged for sample i.
TestsOf(i) == {k \in 1..Len(sunLight.tests) : sunLight.tests[k].i = i}

\* The layers the sun ray of sample i was found to hit.
HitLayers(i) == {sunLight.tests[k].layer : k \in {j \in TestsOf(i) : sunLight.tests[j].hit}}

BuildingHit(i) == \E k \in HitLayers(i) : ~m.layers[k].foliage

\* C1: computeSunLight returns exactly one sample per input timestamp, and
\* sample i carries timestamp times[i]: same length, same order.
C1_SameLengthAndOrder ==
    sunLight.done =>
        /\ Len(sunLight.light) = Len(times)
        /\ \A i \in 1..Len(times) : sunLight.light[i].SunPos.T = times[i]

C1_Witness ==
    /\ sunLight.done
    /\ Len(times) = 2
    /\ times[1] > times[2]
    /\ Len(m.layers) > 0

\* C2: a timestamp with the sun below the horizon gets Light = 0 and
\* Foliage = FALSE and no ray/mesh intersection test, whatever the layers.
C2_BelowHorizon ==
    sunLight.done =>
        \A i \in 1..Len(times) :
            GetSunPos(times[i], m.lat, m.lon).Altitude < 0 =>
                /\ sunLight.light[i].Light = RZero
                /\ sunLight.light[i].Foliage = FALSE
                /\ TestsOf(i) = {}

\* The sun is below the horizon and the ray toward it would hit a foliage
\* layer of the model.
C2_Witness ==
    /\ sunLight.done
    /\ \E i \in 1..Len(times) :
        LET p == GetSunPos(times[i], m.lat, m.lon)
        IN  /\ p.Altitude < 0
            /\ \E k \in 1..Len(m.layers) :
                  /\ m.layers[k].foliage
                  /\ IntersectMesh(SunPosRay(p, testPos), MeshAt(m.layers[k].mesh)).ok

\* C3: for every sample, Foliage implies Light < 1, and Foliage implies
\* that no building layer was hit for the sample.
C3_FoliageInvariant ==
    sunLight.done =>
        \A i \in Samples :
            sunLight.light[i].Foliage =>
                /\ RLess(sunLight.light[i].Light, ROne)
                /\ ~BuildingHit(i)

\* A sample is foliage-shadowed in a model that also holds a building.
C3_Witness ==
    /\ sunLight.done
    /\ \E k \in 1..Len(m.layers) : ~m.layers[k].foliage
    /\ \E i \in Samples : sunLight.light[i].Foliage

\* C4: with the sun above the horizon, a sample whose ray hits a building
\* layer has Light = 0 and Foliage = FALSE, whichever foliage layers are
\* hit too and in whichever order the layers were added.
C4_BuildingOverrides ==
    sunLight.done =>
        \A i \in Samples :
            (sunLight.light[i].SunPos.Altitude >= 0 /\ BuildingHit(i)) =>
                /\ sunLight.light[i].Light = RZero
                /\ sunLight.light[i].Foliage = FALSE

\* A building and a foliage layer are both hit, the foliage layer being the
\* later of the two.
C4_Witness ==
    /\ sunLight.done
    /\ \E i \in Samples : \E b, f \in HitLayers(i) :
          ~m.layers[b].foliage /\ m.layers[f].foliage /\ b < f

\* The same with the foliage layer added first.
C4_WitnessFoliageFirst ==
    /\ sunLight.done
    /\ \E i \in Samples : \E b, f \in HitLayers(i) :
          ~m.layers[b].foliage /\ m.layers[f].foliage /\ f < b

\* C5: with the sun above the horizon, a sample whose ray hits exactly one
\* layer, a foliage layer, has Light = that layer's transmissivity at the
\* timestamp and Foliage = TRUE; a sample whose ray hits no layer has
\* Light = 1 and Foliage = FALSE.
C5_SoleFoliageOrNone ==
    sunLight.done =>
        \A i \in Samples :
            sunLight.light[i].SunPos.Altitude >= 0 =>
                /\ \A k \in HitLayers(i) :
                      (HitLayers(i) = {k} /\ m.layers[k].foliage) =>
                          /\ sunLight.light[i].Light = transmissivity(m.layers[k], times[i])
                          /\ sunLight.light[i].Foliage = TRUE
                /\ HitLayers(i) = {} =>
                      /\ sunLight.light[i].Light = ROne
                      /\ sunLight.light[i].Foliage = FALSE

\* A sample is shadowed by a single foliage layer, on a day of the fall
\* transition, in a model that also holds a building.
C5_Witness ==
    /\ sunLight.done
    /\ \E b \in 1..Len(m.layers) : ~m.layers[b].foliage
    /\ \E i \in Samples :
          /\ sunLight.light[i].SunPos.Altitude >= 0
          /\ \E k \in HitLayers(i) : HitLayers(i) = {k} /\ m.layers[k].foliage
          /\ sunLight.light[i].Light \notin {Rat(1, 2), Rat(1, 20)}

\* The ray of a sample hits no layer of a model that has two layers.
C5_WitnessNoHit ==
    /\ sunLight.done
    /\ Len(m.layers) = 2
    /\ \E j \in Samples :
          sunLight.light[j].SunPos.Altitude >= 0 /\ HitLayers(j) = {}

Perms(n) == {p \in [1..n -> 1..n] : \A a, b \in 1..n : a # b => p[a] # p[b]}

\* C6: the samples are the same for every permutation of the layer list.
C6_OrderIndependent ==
    sunLight.done =>
        \A p \in Perms(Len(m.layers)) :
            computeSunLight([m EXCEPT !.layers = [k \in 1..Len(m.layers) |-> m.layers[p[k]]]],
                            testPos, times).light = sunLight.light

\* Two layers of different kinds are both hit in one sample.
C6_Witness ==
    /\ sunLight.done
    /\ \E i \in Samples : \E b, f \in HitLayers(i) :
          m.layers[b].foliage # m.layers[f].foliage

\* C21: every sample computeSunLight produces has 0 <= Light <= 1,
\* whatever layers were added and whichever of them are hit.
C21_LightInUnitInterval ==
    sunLight.done =>
        \A i \in Samples :
            /\ ~RLess(sunLight.light[i].Light, RZero)
            /\ ~RLess(ROne, sunLight.light[i].Light)

\* Two foliage layers are hit and the light is below what either of them
\* lets through alone, and not zero.
C21_Witness ==
    /\ sunLight.done
    /\ \E i \in Samples :
          /\ Cardinality(HitLayers(i)) = 2
          /\ RLess(RZero, sunLight.light[i].Light)
          /\ RLess(sunLight.light[i].Light, Rat(1, 20))

\* The product of transmissivity(times[i]) over the layers from k on that
\* the ray of sample i hits.
RECURSIVE ProductFrom(_, _)
ProductFrom(k, i) ==
    IF k > Len(m.layers) THEN ROne
    ELSE IF k \in HitLayers(i)
         THEN RMul(transmissivity(m.layers[k], times[i]), ProductFrom(k + 1, i))
         ELSE ProductFrom(k + 1, i)

\* C22: with the sun above the horizon, Light is the product of
\* transmissivity(t) over all the layers the ray hits (1 if it hits none),
\* every layer is tested, and when the loop over the layers ends the
\* building flag and the foliage flag say whether a building layer and a
\* foliage layer were hit, those visited after the light reached 0
\* included.
C22_SkipIsOptimization ==
    sunLight.done =>
        \A i \in Samples :
            sunLight.light[i].SunPos.Altitude >= 0 =>
                LET acc == LayerLoop(NoLayerYet, m.layers, 1, i,
                                     SunPosRay(sunLight.light[i].SunPos, testPos), times[i])
                    product == ProductFrom(1, i)
                IN  /\ sunLight.light[i].Light = acc.light
                    /\ acc.light.n * product.d = product.n * acc.light.d
                    /\ {sunLight.tests[j].layer : j \in TestsOf(i)} = 1..Len(m.layers)
                    /\ acc.building <=> BuildingHit(i)
                    /\ acc.foliage <=> \E k \in HitLayers(i) : m.layers[k].foliage
                    /\ sunLight.light[i].Foliage <=> (acc.foliage /\ ~acc.building)

\* A foliage layer is hit after a building layer has brought the light
\* to 0.
C22_Witness ==
    /\ sunLight.done
    /\ \E i \in Samples : \E b, f \in HitLayers(i) :
          /\ ~m.layers[b].foliage
          /\ m.layers[f].foliage
          /\ b < f
          /\ sunLight.light[i].Light = RZero
          /\ sunLight.light[i].SunPos.Altitude >= 0

\* C23: the sample for times[i] is the one computeSunLight gives for
\* times[i] alone, and for every cut of times in two the samples of the
\* first part followed by those of the second are the samples of the
\* whole; so it is for every partition of times, every sequence of
\* timestamps being checked.
C23_NoCrossTimestampState ==
    sunLight.done =>
        /\ \A i \in Samples :
               sunLight.light[i] = computeSunLight(m, testPos, <<times[i]>>).light[1]
        /\ \A cut \in 0..Len(times) :
               computeSunLight(m, testPos, SubSeq(times, 1, cut)).light
                   \o computeSunLight(m, testPos, SubSeq(times, cut + 1, Len(times))).light
                   = sunLight.light

\* A sample in the shadow of a building is followed by a sample in full
\* light.
C23_Witness ==
    /\ sunLight.done
    /\ Len(times) = 2
    /\ BuildingHit(1)
    /\ sunLight.light[1].Light = RZero
    /\ sunLight.light[2].Light = ROne

(***************************************************************************)
(* Properties of the cache.                                                *)
(***************************************************************************)
\* C7: every call of IntensityOverYear that returns, returns the samples
\* computeSunLight produces for the call's own model, test point and year,
\* whether it was served from the cache or computed.
C7_CacheNeverDecides ==
    ret.status = "returned" =>
        ret.sunPos = computeSunLight(m, testPos, times).light

\* The call of IntensityOverYear that ret describes computed the samples
\* and its Save met no fault.
SaveSucceeded ==
    ret.status = "returned" /\ ~ret.found /\ ret.fault = "none"

\* C8: after a Save of v on a key that succeeds, Load on the same key
\* returns true and yields a value equal to v.
C8_RoundTrip ==
    SaveSucceeded =>
        LET ld == Load(cache, KeyOf(m, testPos, times))
        IN  ld.ok /\ ld.out = ret.sunPos

\* The value saved holds a sample whose Light and Foliage are not sent, a
\* sample in the shade of foliage and a sample whose altitude is not sent.
C8_Witness ==
    /\ SaveSucceeded
    /\ \E i, j, k \in 1..Len(ret.sunPos) :
          /\ ret.sunPos[i].Light = RZero /\ ~ret.sunPos[i].Foliage
          /\ ret.sunPos[j].Foliage
          /\ ret.sunPos[k].SunPos.Altitude = 0

\* C9: a call of IntensityOverYear whose Save met a fault (the directory
\* or the file cannot be created, the write fails) logs the fault and
\* returns the samples it computed.
C9_WriteFailureNotFatal ==
    ret.fault # "none" =>
        /\ ret.status = "returned"
        /\ ret.log # ""
        /\ ret.sunPos = computeSunLight(m, testPos, times).light

\* C10: a call of IntensityOverYear whose Load found nothing it could open
\* and decode computes the samples and returns them.
C10_MissRecomputes ==
    (ret.status # "none" /\ ~ret.found) =>
        /\ sunLight.done
        /\ ret.status = "returned"
        /\ ret.sunPos = sunLight.light

\* The arguments with every mesh pointer replaced by the mesh it points to.
Content(a) == [a EXCEPT !.meshes = [k \in 1..Len(a.meshes) |-> MeshAt(a.meshes[k])]]

\* The content and the key of every argument list, computed once.
KeyPairs == {<<Content(a), KeyFor(a)>> : a \in KeyArgs}

\* The argument lists with key k are those with content c.
KeyMeansContent(c, k) == \A p \in KeyPairs : (p[2] = k) <=> (p[1] = c)

\* C11: MakeCacheKey is content-addressed: two argument lists get the same
\* key if and only if they are equal by content, the meshes compared by
\* what the pointers point to (SHA-256 taken to be free of collisions).
C11_ContentAddressed ==
    out.done => KeyMeansContent(Content(arg), out.val)

\* The key was made for two layers, and another argument list, with other
\* pointers, has the same content.
C11_Witness ==
    /\ out.done
    /\ Len(arg.meshes) = 2
    /\ \E b \in KeyArgs : b # arg /\ Content(b) = Content(arg)

\* The file of key ck holds a value that Load returns.
IsEntry(store, ck) == ck \in DOMAIN store.files /\ Load(store, ck).ok

IsFraction(f, n, d) == f.n * d = n * f.d

\* C13: on day d the foliage transmissivity is 0.5 for d <= 59 or d > 334,
\* 0.5 + (d-59)/(151-59)*(0.05-0.5) for 59 < d <= 151, 0.05 for
\* 151 < d <= 243 and 0.05 + (d-243)/(334-243)*(0.5-0.05) for
\* 243 < d <= 334; it falls strictly from day 59 to day 151 and rises
\* strictly from day 243 to day 334.
C13_Piecewise ==
    out.done =>
        LET d == arg.day
        IN  /\ (d <= 59 \/ d > 334) => IsFraction(out.val, 1, 2)
            /\ (59 < d /\ d <= 151) => IsFraction(out.val, 920 - 9 * (d - 59), 1840)
            /\ (151 < d /\ d <= 243) => IsFraction(out.val, 1, 20)
            /\ (243 < d /\ d <= 334) => IsFraction(out.val, 91 + 9 * (d - 243), 1820)
            /\ (59 <= d /\ d < 151) => RLess(transOfDay(d + 1), out.val)
            /\ (243 <= d /\ d < 334) => RLess(out.val, transOfDay(d + 1))
            /\ d = 151 => IsFraction(out.val, 1, 20)
            /\ d = 334 => IsFraction(out.val, 1, 2)

\* A day inside the fall transition.
C13_Witness == out.done /\ arg.day = 300 /\ out.val = Rat(604, 1820)

(***************************************************************************)
(* Properties of GlobalIntensity.                                          *)
(***************************************************************************)
\* C14: for a sample with the sun below the horizon GlobalIntensity
\* returns exactly 0, whatever Light and elevationFeet are.
C14_ZeroBelowHorizon ==
    (out.done /\ arg.p.SunPos.Altitude < 0) => out.val = Num(0, 0)

\* A sample in full light, just below the horizon, above sea level.
C14_Witness ==
    /\ out.done
    /\ arg.p.SunPos.Altitude = -1
    /\ arg.p.Light = ROne
    /\ arg.elevationFeet = 1000

\* The number x lies between a and b, given in millionths.
Between(x, a, b) == ~x.nan /\ a <= x.lo /\ x.hi <= b

\* C15: with Light = 1 and elevationFeet = 0, GlobalIntensity lies in
\* [1041, 1042] at altitude 90, in [56, 57] at altitude 1 and in
\* [22.4, 22.5] at altitude 0.
C15_KnownValues ==
    (out.done /\ arg.p.Light = ROne /\ arg.elevationFeet = 0) =>
        /\ arg.p.SunPos.Altitude = 90 => Between(out.val, 1041000000, 1042000000)
        /\ arg.p.SunPos.Altitude = 1 => Between(out.val, 56000000, 57000000)
        /\ arg.p.SunPos.Altitude = 0 => Between(out.val, 22400000, 22500000)

\* The sun at the horizon, where the air mass is largest.
C15_Witness ==
    /\ out.done
    /\ arg.p.Light = ROne
    /\ arg.elevationFeet = 0
    /\ arg.p.SunPos.Altitude = 0
    /\ out.val.lo > 0

(***************************************************************************)
(* Properties of IntersectTriangle and IntersectMesh.                      *)
(***************************************************************************)
\* The ray r against the plane of tri, solved by Cramer's rule: with n the
\* normal edge1 x edge2 and s the origin seen from the first point, the ray
\* meets the plane at distance T/det (in steps), at the point with
\* barycentric coordinates U/det and V/det.
Solve(r, tri) ==
    LET edge1 == Sub(tri[2], tri[1])
        edge2 == Sub(tri[3], tri[1])
        s     == Sub(r.Origin, tri[1])
        n     == Cross(edge1, edge2)
    IN  [edge1 |-> edge1, edge2 |-> edge2, s |-> s,
         det |-> -Dot(r.Dir, n),
         T   |-> Dot(s, n),
         U   |-> Dot(s, Cross(r.Dir, edge2)),
         V   |-> Dot(r.Dir, Cross(s, edge1))]

\* The point of the ray at distance T/det is the point of the plane with
\* coordinates U/det and V/det: det * (Origin - tri[0]) + T * Dir =
\* U * edge1 + V * edge2.
SamePoint(r, sol) ==
    \A i \in 1..3 :
        sol.det * sol.s[i] + sol.T * r.Dir[i] = sol.U * sol.edge1[i] + sol.V * sol.edge2[i]

\* The point with coordinates U/det and V/det lies in the triangle.
Inside(sol) ==
    /\ sol.det # 0
    /\ Sgn(sol.det) * sol.U >= 0
    /\ Sgn(sol.det) * sol.V >= 0
    /\ Sgn(sol.det) * (sol.U + sol.V) <= Abs(sol.det)

\* C16: when IntersectTriangle returns ok = true, |det| >= 1e-7, u >= 0,
\* v >= 0, u + v <= 1 and the returned t is the distance to the point of
\* intersection and is >= 1e-7; a ray parallel to the plane of the
\* triangle, or whose line meets the triangle behind or at the origin of
\* the ray, yields ok = false.
C16_ProperForwardHit ==
    out.done =>
        LET sol == Solve(arg.r, arg.tri)
            g   == arg.grid
        IN  /\ out.val.ok =>
                /\ ~BelowEpsilon(Abs(sol.det), g * g)
                /\ Inside(sol)
                /\ SamePoint(arg.r, sol)
                /\ out.val.t.n * (Abs(sol.det) * g) = Sgn(sol.det) * sol.T * out.val.t.d
                /\ ~BelowEpsilon(out.val.t.n, out.val.t.d)
            /\ sol.det = 0 => ~out.val.ok
            /\ (Inside(sol) /\ Sgn(sol.det) * sol.T <= 0) => ~out.val.ok

\* The back face of a triangle hit on the fine grid, off its centre.
C16_Witness ==
    /\ out.done
    /\ out.val.ok
    /\ arg.grid = 10000
    /\ arg.tri = Reversed(Wide)
    /\ arg.r = [Origin |-> Vec(2, 1, 2), Dir |-> Vec(0, 0, -1)]
    /\ out.val.t = [n |-> 72, d |-> 360000]

\* The ray r starts outside the plane of tri and runs along the normal of
\* the plane to the centroid of tri, which it reaches after k/3 steps.
AimedAtCentroid(r, tri) ==
    LET n == Cross(Sub(tri[2], tri[1]), Sub(tri[3], tri[1]))
    IN  /\ n # Vec(0, 0, 0)
        /\ Cross(r.Dir, n) = Vec(0, 0, 0)
        /\ Dot(Sub(r.Origin, tri[1]), n) # 0
        /\ \E k \in 1..9 :
               \A i \in 1..3 :
                   3 * r.Origin[i] + k * r.Dir[i] = tri[1][i] + tri[2][i] + tri[3][i]

\* C17: a ray that starts outside the plane of a triangle and is aimed at
\* its centroid along the normal of the plane is reported as a hit with a
\* positive distance, from either side, and the triangle with its winding
\* reversed gives the same result.
C17_CentroidAlwaysHit ==
    (out.done /\ AimedAtCentroid(arg.r, arg.tri)) =>
        /\ out.val.ok
        /\ out.val.t.n > 0
        /\ IntersectTriangleOn(arg.r, Reversed(arg.tri), arg.grid) = out.val

\* The triangles of the mesh that the ray r hits.
HitTriangles(r, mesh) ==
    {k \in 1..Len(mesh.Tris) :
        IntersectTriangle(r, MeshTriangle(mesh, mesh.Tris[k])).ok}

\* C18: IntersectMesh reports a hit exactly when IntersectTriangle reports
\* one for some triangle of the mesh, and then returns the distance of one
\* of them; on a mesh with no triangle it reports no hit.
C18_HitIffSomeTriangle ==
    out.done =>
        LET hits == HitTriangles(arg.r, arg.mesh)
        IN  /\ out.val.ok <=> hits # {}
            /\ out.val.ok =>
                   \E k \in hits :
                       out.val.t = IntersectTriangle(arg.r,
                                       MeshTriangle(arg.mesh, arg.mesh.Tris[k])).t
            /\ Len(arg.mesh.Tris) = 0 => ~out.val.ok

\* A ray that hits the first of three triangles and misses the last.
C18_Witness ==
    /\ out.done
    /\ out.val.ok
    /\ arg.mesh = MeshOf(<<Upright, Slanted, Flat>>)
    /\ HitTriangles(arg.r, arg.mesh) = {1}

(***************************************************************************)
(* Properties of ReadSTL.                                                  *)
(***************************************************************************)
\* The input vertices of a file: vertex v of triangle i, in the order of
\* the file.
InputVertices(file) == {<<i, v>> : i \in 1..Len(file.tris), v \in 1..3}

Earlier(p, q) == p[1] < q[1] \/ (p[1] = q[1] /\ p[2] < q[2])

\* math.Float32bits, of the three coordinates of a vertex.
VertexBits(vert) ==
    [c \in 1..3 |-> Uint32(IF vert[c].neg THEN 1 ELSE 0, vert[c].exp * 2^23 + vert[c].frac)]

\* The bits are those of a NaN: the exponent is all ones and the fraction
\* is not zero.
NaNPattern(b) == b.low > 255 * 2^23

\* The bits of two vertices are those of equal numbers: no NaN, and the
\* same bits but for the sign of a zero.
SameNumbers(a, b) ==
    \A c \in 1..3 :
        /\ ~NaNPattern(a[c])
        /\ ~NaNPattern(b[c])
        /\ a[c] = b[c] \/ (a[c].low = 0 /\ b[c].low = 0)

\* The index given to an input vertex is in range.
IndexesInRange(file, mesh) ==
    /\ Len(mesh.Tris) = Len(file.tris)
    /\ \A p \in InputVertices(file) : mesh.Tris[p[1]][p[2]] \in 0..(Len(mesh.Verts) - 1)

\* C19, as stated: every input vertex is given an index in range at which
\* Verts holds its coordinates, two input vertices are given the same
\* index if and only if their coordinates are the same bit for bit, and
\* Verts holds no vertex twice.
C19_WeldedIffSameBits ==
    (out.done /\ ~out.val.err) =>
        LET file == arg.file
            mesh == out.val.mesh
        IN  /\ IndexesInRange(file, mesh)
            /\ \A p \in InputVertices(file) :
                   VertexBits(mesh.Verts[mesh.Tris[p[1]][p[2]] + 1]) = file.tris[p[1]][p[2]]
            /\ \A p, q \in InputVertices(file) :
                   mesh.Tris[p[1]][p[2]] = mesh.Tris[q[1]][q[2]]
                       <=> file.tris[p[1]][p[2]] = file.tris[q[1]][q[2]]
            /\ \A j, k \in 1..Len(mesh.Verts) : mesh.Verts[j] = mesh.Verts[k] => j = k

\* C19, amended: every input vertex is given an index in range; two
\* different input vertices are given the same index if and only if their
\* coordinates are == as float32 (the two zeros are equal, a NaN equals
\* nothing, itself included); Verts holds at that index the bits of the
\* first input vertex that is == to it, or its own bits if it holds a NaN;
\* no two entries of Verts are ==, and every entry is the index of some
\* input vertex.
C19_WeldedIffEqual ==
    (out.done /\ ~out.val.err) =>
        LET file == arg.file
            mesh == out.val.mesh
        IN  /\ IndexesInRange(file, mesh)
            /\ \A p, q \in InputVertices(file) :
                   Earlier(p, q) =>
                       (mesh.Tris[p[1]][p[2]] = mesh.Tris[q[1]][q[2]]
                           <=> SameNumbers(file.tris[p[1]][p[2]], file.tris[q[1]][q[2]]))
            /\ \A p \in InputVertices(file) :
                   LET same  == {q \in InputVertices(file) :
                                    /\ ~Earlier(p, q)
                                    /\ SameNumbers(file.tris[q[1]][q[2]], file.tris[p[1]][p[2]])}
                       first == IF same = {} THEN p
                                ELSE CHOOSE q \in same : \A q2 \in same : ~Earlier(q2, q)
                   IN  VertexBits(mesh.Verts[mesh.Tris[p[1]][p[2]] + 1])
                           = file.tris[first[1]][first[2]]
            /\ \A j, k \in 1..Len(mesh.Verts) :
                   SameNumbers(VertexBits(mesh.Verts[j]), VertexBits(mesh.Verts[k])) => j = k
            /\ \A j \in 1..Len(mesh.Verts) :
                   \E p \in InputVertices(file) : mesh.Tris[p[1]][p[2]] = j - 1

\* Two triangles: a zero and a negative zero, which is welded with it,
\* then the same NaN twice, which is not welded; both share the third
\* vertex.
C19_Witness ==
    /\ out.done
    /\ ~out.val.err
    /\ out.val.mesh.Tris = <<<<0, 0, 1>>, <<2, 3, 1>>>>
    /\ Len(out.val.mesh.Verts) = 4
    /\ VertexBits(out.val.mesh.Verts[3]) = VertexBits(out.val.mesh.Verts[4])

(***************************************************************************)
(* Properties of main.                                                     *)
(***************************************************************************)
\* C20: when AddBuildings or AddFoliage has failed to open or to read its
\* file, no IntensityOverYear and no computeSunLight is performed on the
\* model: while the error of the last call is the one in hand, nothing has
\* been computed or returned.
C20_FailedLoadStopsRun ==
    err \in {"open", "read"} => (ret.status = "none" /\ ~sunLight.done)

\* C24: a step that changes the layer list of the model appends one
\* layer at its end, leaves the layers before it as they were and returns
\* no error; a step that returns an error of os.Open or of ReadSTL leaves
\* the list as it was; a step that returns from IntensityOverYear,
\* computeSunLight included, leaves the model as it was.
C24_AppendOnly ==
    [][/\ m'.layers # m.layers =>
            /\ err' = "nil"
            /\ Len(m'.layers) = Len(m.layers) + 1
            /\ SubSeq(m'.layers, 1, Len(m.layers)) = m.layers
            /\ [m' EXCEPT !.layers = m.layers] = m
       /\ err' \in {"open", "read"} => m' = m
       /\ ret'.status # "none" => m' = m]_vars

\* A call that failed to read its file has left the list of one layer
\* that the call before it made, and IntensityOverYear has returned since.
C24_Witness ==
    /\ err = "read"
    /\ Len(m.layers) = 1
    /\ ret.status = "returned"
    /\ sunLight.done


(***************************************************************************)
(* Properties of the POV-Ray backend.                                      *)
(***************************************************************************)
\* C25: on POV-Ray's answers to the requests, which are IntersectMesh's
\* answers for the same sun positions and layers, the POV-Ray-backed
\* computeSunLight returns the samples of the geometric computeSunLight:
\* the same sun position, Light and Foliage at every index.
C25_SameAggregation ==
    (/\ sunLight.done
     /\ out.done /\ out.fn = "computeSunLight"
     /\ out.val.outData = SunLightOutput(m, testPos,
                              [i \in 1..Len(times) |-> GetSunPos(times[i], m.lat, m.lon)],
                              out.val.requests, 1))
    => /\ out.val.status = "returned"
       /\ out.val.poses = sunLight.light

\* A building and a foliage layer are both hit at a sample above the
\* horizon, beside a sample below it, and both backends have run.
C25_Witness ==
    /\ sunLight.done
    /\ out.done /\ out.fn = "computeSunLight" /\ out.val.status = "returned"
    /\ \E i \in Samples : sunLight.light[i].SunPos.Altitude < 0
    /\ \E i \in Samples :
          /\ BuildingHit(i)
          /\ \E k \in HitLayers(i) : m.layers[k].foliage


\* What POV-Ray writes for the requests of the call made.
Written ==
    IF out.fn = "computeSunPos"
    THEN SunPosOutput(m, testPos, times, out.val.requests, 1)
    ELSE SunLightOutput(m, testPos,
                        [i \in 1..Len(times) |-> GetSunPos(times[i], m.lat, m.lon)],
                        out.val.requests, 1)

\* The file read back holds at least what POV-Ray wrote.
Complete == Len(out.val.outData) >= Len(Written)

\* One hit byte per layer for each of the timestamps kept, timestamp-major
\* and layer-minor.
HitBytesOf(keep) ==
    LET from[i \in 1..(Len(times) + 1)] ==
            IF i > Len(times) THEN <<>>
            ELSE (IF keep[i] THEN [k \in 1..Len(m.layers) |-> [i |-> i, layer |-> k]]
                  ELSE <<>>) \o from[i + 1]
    IN  from[1]

AboveHorizon == [i \in 1..Len(times) |-> GetSunPos(times[i], m.lat, m.lon).Altitude >= 0]

EveryTimestamp == [i \in 1..Len(times) |-> TRUE]

IsHit(q) == q.layer > 0

\* The testHit requests written, as the sample and the layer of each.
HitsAsked ==
    LET asked == SelectSeq(out.val.requests, IsHit)
    IN  [n \in 1..Len(asked) |-> [i |-> asked[n].i, layer |-> asked[n].layer]]

HitsRead == SelectSeq(out.val.reads, IsHit)

C26_MinuteByMinute ==
    ret.status # "none" =>
        \E year \in Years :
            /\ Len(times) > 0
            /\ times[1] = Date(year)
            /\ \A k \in 1..Len(times) : Year(times[k]) = year
            /\ \A k \in 1..(Len(times) - 1) :
                  times[k + 1] = times[k] + Minute /\ times[k] < times[k + 1]
            /\ Year(times[Len(times)] + Minute) # year
            /\ ret.status = "returned" =>
                  /\ Len(ret.sunPos) = Len(times)
                  /\ \A k \in 1..Len(times) : ret.sunPos[k].SunPos.T = times[k]

\* A call for the year after the first was served from the cache.
C26_Witness ==
    /\ ret.status = "returned" /\ ret.found
    /\ Len(times) = TicksPerYear
    /\ times[1] = Date(BaseYear + 1)
    /\ Len(m.layers) > 0


(***************************************************************************)
(* Properties of two processes on one key.                                 *)
(***************************************************************************)
\* The processes whose Save has created the file.
Savers == {q \in 1..2 : out.proc[q].pc = "Encode"
                        \/ (out.proc[q].pc = "returned" /\ ~out.proc[q].found)}

C29_MinorDividesBest ==
    out.done =>
        /\ out.val.best > 0
        /\ out.val.minor > 0
        /\ out.val.best % out.val.minor = 0
        /\ ~out.val.panic


(***************************************************************************)
(* Properties of the polygons.                                             *)
(***************************************************************************)
\* C30: for every times and states, the changes findChanges returns form a
\* chain, each change's after being the next change's before, and makePolys
\* on them returns: no "bad change span", no index out of range, and no
\* polygon for state 0.
C30_ChainAndNoPanic ==
    out.done =>
        /\ \A k \in 1..(Len(out.val.changes) - 1) :
              out.val.changes[k].after = out.val.changes[k + 1].before
        /\ out.val.status = "returned"
        /\ \A k \in 1..Len(out.val.polys) : out.val.polys[k].s # 0

=============================================================================
